---- MODULE Spec2Model ----
(***************************************************************************)
(* The semantic index subsystem of phi-assistant:                          *)
(*   - MessageEmbeddingManager (embeddings/message_embeddings.py): the     *)
(*     message index, its position -> message mapping, the watermark       *)
(*     last_indexed_message_id and the three artifacts it persists;        *)
(*   - FaissPersistenceManager (embeddings/faiss_persistence.py): checksum, *)
(*     save_index_with_metadata and load_index_with_validation over the    *)
(*     tool catalog.                                                       *)
(* Vectors are abstract: the embedding of a text is a value naming the     *)
(* model and the text embedded.  Distances and similarities are integers   *)
(* in hundredths.                                                          *)
(***************************************************************************)
EXTENDS Integers, Sequences, FiniteSets, TLC

VARIABLES
    db_max_id,                \* highest id of the messages table
    db_eligible,              \* ids the fetch query's WHERE clause selects
    pc,                       \* position of the (single-threaded) process
    embedding_model_name,     \* MessageEmbeddingManager.embedding_model_name
    index,                    \* self.index: the vectors, in position order
    message_mapping,          \* self.message_mapping: position -> message
    last_indexed_message_id,  \* self.last_indexed_message_id
    disk,                     \* messages.faiss, messages_mapping.json, messages_metadata.json
    lastOp,                   \* the step taken last and how it ended
    lastResult                \* what the last search returned

mvars == <<db_max_id, db_eligible, pc, embedding_model_name, index,
           message_mapping, last_indexed_message_id, disk, lastOp, lastResult>>

VARIABLES
    pfiles,        \* tools.faiss, tools_mapping.json, tools_metadata.json
    last_save,     \* the last save_index_with_metadata call: its arguments and outcome
    load_result    \* the last load_index_with_validation call: its arguments and return value

pvars == <<pfiles, last_save, load_result>>

VARIABLES
    tool_pc,       \* whether a ToolEmbeddingsManager exists: "down" or "ready"
    tool_dict,     \* self.tool_dict: the catalog as load_db_tools returned it
    tool_index,    \* self.index of the tool manager
    tool_mapping,  \* self.tool_mapping: position -> tool record
    tool_op        \* the call made last on the tool manager and how it ended

tvars == <<tool_pc, tool_dict, tool_index, tool_mapping, tool_op>>

VARIABLES
    call           \* the last application of a pure function: arguments and value

VARIABLES
    loop_pc,                  \* the orchestrator's while loop: "reading" or "exited"
    conversations,            \* the conversations table: row id -> whether it was ended
    current_conversation,     \* ConversationHistoryManager.current_conversation_id
    input_data,               \* what get_user_input returned last
    loop_op,                  \* the last pass of the loop: database state and handler result
    messages_table,           \* the messages table: row id -> the row
    current_sequence_number   \* ConversationHistoryManager.current_sequence_number

lvars == <<loop_pc, conversations, current_conversation, input_data, loop_op,
           messages_table, current_sequence_number>>

vars == <<mvars, pvars, tvars, call, lvars>>

-----------------------------------------------------------------------------
(* Bounds and program constants *)

MaxMsgs == 3

\* Cap on the vectors of an index (an index adopted out of step with its
\* mapping can otherwise grow without end)
MaxVectors == MaxMsgs

enable_persistence == TRUE

DefaultModel == "all-MiniLM-L6-v2"
ModelNames == {DefaultModel}

NoFile == [kind |-> "absent"]            \* the path does not exist
Garbled == [kind |-> "garbled"]          \* a partly written file: reading it raises
File(content) == [kind |-> "file", content |-> content]
None == "None"

\* The tool index files carry their size in bytes (os.path.getsize)
PFile(content, size) == [kind |-> "file", content |-> content, size |-> size]
PNoFile == [kind |-> "absent", size |-> 0]
PPartial(size) == [kind |-> "garbled", size |-> size]
NoFiles == [index_file |-> PNoFile, mapping_file |-> PNoFile, metadata_file |-> PNoFile]

\* None as a return value of load_index_with_validation
Absent == [kind |-> "None"]
Invalid == [index |-> Absent, tool_mapping |-> Absent, is_valid |-> FALSE]

\* No save and no load yet
NoSave == [status |-> "none", tools |-> <<>>, rows |-> <<>>, model |-> "",
           db_update |-> 0, probeOk |-> TRUE]
NoLoad == [called |-> FALSE, tools |-> <<>>, model |-> "", current_db_update |-> 0,
           readFail |-> "none", result |-> Invalid, log |-> <<>>]

\* An attribute the object does not have (yet)
Unset == [kind |-> "unset"]

\* An empty dict with its (empty) key order
EmptyDict == [rows |-> <<>>, data |-> <<>>]

NoToolOp == [op |-> "none", outcome |-> "none"]
NoCall == [fn |-> "none"]

\* Before the first input is read
NoInput == [text |-> <<>>, type |-> "none", action |-> "none"]

NoLoopOp == [user_input |-> <<>>, interrupted |-> FALSE, db_ok |-> TRUE,
             result |-> [returned |-> FALSE], tool_candidates |-> <<>>,
             contextual_pairs |-> <<>>, executed |-> 0, stored |-> FALSE]

-----------------------------------------------------------------------------
(* Helpers *)

MaxOf(S) == CHOOSE x \in S : \A y \in S : y <= x
MinOf(S) == CHOOSE x \in S : \A y \in S : x <= y
Min2(a, b) == IF a <= b THEN a ELSE b
Max2(a, b) == IF a >= b THEN a ELSE b

RECURSIVE SortedSeq(_)
SortedSeq(S) == IF S = {} THEN <<>> ELSE <<MinOf(S)>> \o SortedSeq(S \ {MinOf(S)})

EmptyMapping == [p \in {} |-> 0]

Digits == <<"0", "1", "2", "3", "4", "5", "6", "7", "8", "9">>

\* str(i) of a non-negative integer: the key json.dump writes for an int key
RECURSIVE Str(_)
Str(i) == IF i < 10 THEN Digits[i + 1] ELSE Str(i \div 10) \o Digits[(i % 10) + 1]

\* int(s) of a decimal string written by Str
MaxKey == 40
IntOf(s) == CHOOSE i \in 0..MaxKey : Str(i) = s

\* json.dump(mapping): integer keys become strings
DumpMapping(mapping) ==
    [s \in {Str(p) : p \in DOMAIN mapping} |-> mapping[IntOf(s)]]

\* {int(k): v for k, v in loaded_mapping.items()}
IntKeys(loaded) ==
    [p \in {IntOf(s) : s \in DOMAIN loaded} |-> loaded[Str(p)]]

\* embedding_model.encode(text): opaque, deterministic per model
Embed(model, text) == [model |-> model, text |-> text]

-----------------------------------------------------------------------------
(* MessageEmbeddingManager: pure parts *)

\* Where a persist can stop: a write that raises (the except clause logs and
\* returns) or the process dying there.  "ok" is the complete save.
PersistOutcomes ==
    {"ok", "index_unwritten", "index_partial", "mapping_unwritten",
     "mapping_partial", "metadata_unwritten", "metadata_partial"}

NoDisk == [index_file |-> NoFile, mapping_file |-> NoFile, metadata_file |-> NoFile]

\* The manager's fields and the files, as one value the operations transform
Manager(idx, mapping, last, dsk) ==
    [index |-> idx, message_mapping |-> mapping,
     last_indexed_message_id |-> last, disk |-> dsk]

\* The fetch, were it to return the newest row alone
FetchMessagesForEmbedding_NewestOnly(eligible, since, fetchOk) ==
    IF fetchOk /\ {i \in eligible : i > since} # {}
    THEN <<MaxOf({i \in eligible : i > since})>>
    ELSE <<>>

\* _fetch_messages_for_embedding(since_message_id): the eligible rows with
\* id > since, ascending; a failed query is logged and gives []
FetchMessagesForEmbedding(eligible, since, fetchOk) ==
    IF fetchOk THEN SortedSeq({i \in eligible : i > since}) ELSE <<>>

\* _generate_embeddings_for_messages
GenerateEmbeddingsForMessages(model, messages) ==
    [i \in 1..Len(messages) |-> Embed(model, messages[i])]

MessageMetadata(model, messages, last) ==
    [embedding_model |-> model,
     message_count |-> Len(messages),
     last_indexed_message_id |-> last]

\* _save_index_to_disk: index, then mapping, then metadata, each written in
\* place; any exception is logged and swallowed
SaveIndexToDisk(dsk, idx, mapping, last, model, messages, outcome) ==
    LET i1 == CASE outcome = "index_unwritten" -> dsk.index_file
                [] outcome = "index_partial" -> Garbled
                [] OTHER -> File(idx)
        m1 == CASE outcome \in {"index_unwritten", "index_partial", "mapping_unwritten"}
                     -> dsk.mapping_file
                [] outcome = "mapping_partial" -> Garbled
                [] OTHER -> File(DumpMapping(mapping))
        d1 == CASE outcome = "ok" -> File(MessageMetadata(model, messages, last))
                [] outcome = "metadata_partial" -> Garbled
                [] OTHER -> dsk.metadata_file
    IN [index_file |-> i1, mapping_file |-> m1, metadata_file |-> d1]

\* _create_empty_index
CreateEmptyIndex(st) == Manager(<<>>, EmptyMapping, 0, st.disk)

\* list(self.message_mapping.values()): insertion order is position order
MappingValues(mapping) ==
    LET keys == SortedSeq(DOMAIN mapping)
    IN [i \in 1..Len(keys) |-> mapping[keys[i]]]

\* _build_index_from_scratch, were the exception of a failed save to reach
\* its except clause
BuildIndexFromScratch_SaveRaises(st, model, eligible, fetchOk, embedOk, persist) ==
    LET messages == FetchMessagesForEmbedding(eligible, 0, fetchOk)
        idx == GenerateEmbeddingsForMessages(model, messages)
        mapping == [p \in 0..(Len(messages) - 1) |-> messages[p + 1]]
        last == MaxOf({messages[i] : i \in 1..Len(messages)})
    IN IF messages = <<>> \/ ~embedOk THEN CreateEmptyIndex(st)
       ELSE IF enable_persistence /\ persist # "ok"
       THEN Manager(<<>>, EmptyMapping, 0,
                    SaveIndexToDisk(st.disk, idx, mapping, last, model, messages, persist))
       ELSE Manager(idx, mapping, last,
                    IF enable_persistence
                    THEN SaveIndexToDisk(st.disk, idx, mapping, last, model, messages, persist)
                    ELSE st.disk)

\* _build_index_from_scratch
BuildIndexFromScratch(st, model, eligible, fetchOk, embedOk, persist) ==
    LET messages == FetchMessagesForEmbedding(eligible, 0, fetchOk)
        idx == GenerateEmbeddingsForMessages(model, messages)
        mapping == [p \in 0..(Len(messages) - 1) |-> messages[p + 1]]
        last == MaxOf({messages[i] : i \in 1..Len(messages)})
    IN IF messages = <<>> THEN CreateEmptyIndex(st)
       ELSE IF ~embedOk THEN CreateEmptyIndex(st)
       ELSE Manager(idx, mapping, last,
                    IF enable_persistence
                    THEN SaveIndexToDisk(st.disk, idx, mapping, last, model, messages, persist)
                    ELSE st.disk)

\* _update_index_incrementally fetching the ids from the watermark on
\* (id >= watermark) instead of the ids above it
UpdateIndexIncrementally_Inclusive(st, model, eligible, fetchOk, embedOk, persist) ==
    LET new_messages == FetchMessagesForEmbedding(eligible, st.last_indexed_message_id - 1, fetchOk)
        start_idx == Cardinality(DOMAIN st.message_mapping)
        idx == st.index \o GenerateEmbeddingsForMessages(model, new_messages)
        added == start_idx..(start_idx + Len(new_messages) - 1)
        mapping == [p \in (DOMAIN st.message_mapping) \cup added |->
                      IF p \in added THEN new_messages[p - start_idx + 1]
                      ELSE st.message_mapping[p]]
        last == MaxOf({new_messages[i] : i \in 1..Len(new_messages)})
    IN IF new_messages = <<>> THEN st
       ELSE IF ~embedOk THEN st
       ELSE Manager(idx, mapping, last,
                    IF enable_persistence
                    THEN SaveIndexToDisk(st.disk, idx, mapping, last, model,
                                         MappingValues(mapping), persist)
                    ELSE st.disk)

\* _update_index_incrementally taking the first new id as the watermark
UpdateIndexIncrementally_FirstId(st, model, eligible, fetchOk, embedOk, persist) ==
    LET new_messages == FetchMessagesForEmbedding(eligible, st.last_indexed_message_id, fetchOk)
        start_idx == Cardinality(DOMAIN st.message_mapping)
        idx == st.index \o GenerateEmbeddingsForMessages(model, new_messages)
        added == start_idx..(start_idx + Len(new_messages) - 1)
        mapping == [p \in (DOMAIN st.message_mapping) \cup added |->
                      IF p \in added THEN new_messages[p - start_idx + 1]
                      ELSE st.message_mapping[p]]
    IN IF new_messages = <<>> THEN st
       ELSE IF ~embedOk THEN st
       ELSE Manager(idx, mapping, new_messages[1],
                    IF enable_persistence
                    THEN SaveIndexToDisk(st.disk, idx, mapping, new_messages[1], model,
                                         MappingValues(mapping), persist)
                    ELSE st.disk)

\* _update_index_incrementally fetching from id 0 instead of the watermark
UpdateIndexIncrementally_FromZero(st, model, eligible, fetchOk, embedOk, persist) ==
    LET new_messages == FetchMessagesForEmbedding(eligible, 0, fetchOk)
        start_idx == Cardinality(DOMAIN st.message_mapping)
        idx == st.index \o GenerateEmbeddingsForMessages(model, new_messages)
        added == start_idx..(start_idx + Len(new_messages) - 1)
        mapping == [p \in (DOMAIN st.message_mapping) \cup added |->
                      IF p \in added THEN new_messages[p - start_idx + 1]
                      ELSE st.message_mapping[p]]
        last == MaxOf({new_messages[i] : i \in 1..Len(new_messages)})
    IN IF new_messages = <<>> THEN st
       ELSE IF ~embedOk THEN st
       ELSE Manager(idx, mapping, last,
                    IF enable_persistence
                    THEN SaveIndexToDisk(st.disk, idx, mapping, last, model,
                                         MappingValues(mapping), persist)
                    ELSE st.disk)

\* _update_index_incrementally moving the watermark although the embedding failed
UpdateIndexIncrementally_SkipsFailed(st, model, eligible, fetchOk, embedOk, persist) ==
    LET new_messages == FetchMessagesForEmbedding(eligible, st.last_indexed_message_id, fetchOk)
    IN IF new_messages # <<>> /\ ~embedOk
       THEN Manager(st.index, st.message_mapping,
                    MaxOf({new_messages[i] : i \in 1..Len(new_messages)}), st.disk)
       ELSE UpdateIndexIncrementally_FromZero(st, model,
                {i \in eligible : i > st.last_indexed_message_id}, fetchOk, embedOk, persist)

\* _update_index_incrementally
UpdateIndexIncrementally(st, model, eligible, fetchOk, embedOk, persist) ==
    LET new_messages == FetchMessagesForEmbedding(eligible, st.last_indexed_message_id, fetchOk)
        start_idx == Cardinality(DOMAIN st.message_mapping)
        idx == st.index \o GenerateEmbeddingsForMessages(model, new_messages)
        added == start_idx..(start_idx + Len(new_messages) - 1)
        mapping == [p \in (DOMAIN st.message_mapping) \cup added |->
                      IF p \in added THEN new_messages[p - start_idx + 1]
                      ELSE st.message_mapping[p]]
        last == MaxOf({new_messages[i] : i \in 1..Len(new_messages)})
    IN IF new_messages = <<>> THEN st
       ELSE IF ~embedOk THEN st
       ELSE Manager(idx, mapping, last,
                    IF enable_persistence
                    THEN SaveIndexToDisk(st.disk, idx, mapping, last, model,
                                         MappingValues(mapping), persist)
                    ELSE st.disk)

\* _load_persisted_index: the three files exist, the metadata names the
\* current model, and index and mapping can be read; nothing else is checked
LoadPersistedIndex(dsk, model, readOk) ==
    LET invalid == [index |-> None, mapping |-> None, is_valid |-> FALSE]
    IN IF "absent" \in {dsk.index_file.kind, dsk.metadata_file.kind, dsk.mapping_file.kind}
       THEN invalid
       ELSE IF ~readOk \/ dsk.metadata_file.kind = "garbled" THEN invalid
       ELSE IF dsk.metadata_file.content.embedding_model # model THEN invalid
       ELSE IF "garbled" \in {dsk.index_file.kind, dsk.mapping_file.kind} THEN invalid
       ELSE [index |-> dsk.index_file.content, mapping |-> dsk.mapping_file.content,
             is_valid |-> TRUE]

\* rebuild_index
RebuildIndex(st, model, eligible, fetchOk, embedOk, persist) ==
    BuildIndexFromScratch(Manager(st.index, EmptyMapping, 0, st.disk),
                          model, eligible, fetchOk, embedOk, persist)

-----------------------------------------------------------------------------
(* search_similar_messages: the nearest-neighbour search and its filters *)

\* Columns of the messages table that the filters read, per message id
ConversationOf(id) == ((id - 1) \div 2) + 1
AgeDaysOf(id) == IF id = 1 THEN 40 ELSE IF id = 2 THEN 10 ELSE 1

\* Squared L2 distance of two embeddings, in hundredths: the texts lie on a
\* line, 0.5 apart (squared), and no two embeddings are further than 4.0
Distance(a, b) ==
    IF a.model # b.model THEN 400
    ELSE Min2(400, (a.text - b.text) * (a.text - b.text) * 50)

\* similarity_score = max(0.0, 1.0 - distance / 2.0), in hundredths
Similarity(distance) == Max2(0, 100 - (distance \div 2))

\* index.search(query_embedding, search_k): positions by ascending distance
IndexSearch(idx, qvec, search_k) ==
    LET n == Len(idx)
        key(p) == Distance(qvec, idx[p + 1]) * (n + 1) + p
        keys == SortedSeq({key(p) : p \in 0..(n - 1)})
    IN [i \in 1..Min2(search_k, n) |-> keys[i] % (n + 1)]

RECURSIVE ScanResults(_, _, _, _, _, _, _, _, _)
ScanResults(order, i, acc, idx, mapping, qvec, k, exclude, args) ==
    IF i > Len(order) \/ (acc # <<>> /\ Len(acc) >= k) THEN acc
    ELSE LET pos == order[i]
             distance == Distance(qvec, idx[pos + 1])
             similarity_score == Similarity(distance)
             skip == \/ pos \notin DOMAIN mapping
                     \/ similarity_score < args.min_similarity_score
                     \/ ConversationOf(mapping[pos]) \in exclude
                     \/ /\ args.max_age_days > 0   \* None (-1) and 0 are falsy
                        /\ AgeDaysOf(mapping[pos]) > args.max_age_days
             hit == [id |-> mapping[pos],
                     similarity_score |-> similarity_score,
                     search_rank |-> Len(acc) + 1,
                     l2_distance |-> distance]
         IN ScanResults(order, i + 1, IF skip THEN acc ELSE Append(acc, hit),
                        idx, mapping, qvec, k, exclude, args)

\* The search loop over every vector of the index instead of the
\* min(3k, ntotal) nearest
SearchLoop_AllNeighbours(idx, mapping, model, query, k, exclude, args, encodeOk) ==
    IF ~encodeOk THEN <<>>
    ELSE LET qvec == Embed(model, query)
             order == IndexSearch(idx, qvec, Len(idx))
         IN ScanResults(order, 1, <<>>, idx, mapping, qvec, k, exclude, args)

\* The part of search_similar_messages after the catch-up
SearchLoop(idx, mapping, model, query, k, exclude, args, encodeOk) ==
    IF ~encodeOk THEN <<>>
    ELSE LET qvec == Embed(model, query)
             order == IndexSearch(idx, qvec, Min2(k * 3, Len(idx)))
         IN ScanResults(order, 1, <<>>, idx, mapping, qvec, k, exclude, args)

-----------------------------------------------------------------------------
(* The message index as a state machine *)

\* The step taken last: which handler, how it ended, whether its persist
\* completed, and (for a search) how the catch-up inside it ended
\* What _save_index_to_disk logs: the event of the save, or the error of
\* the exception it caught
SaveLog(persist) ==
    CASE persist = "none" -> <<>>
      [] persist = "ok" -> <<"message_index_saved">>
      [] OTHER -> <<"message_index_save_failed">>

Op(op, outcome, persist) ==
    [op |-> op, outcome |-> outcome,
     persist |-> IF persist \in {"ok", "none"} THEN persist ELSE "failed",
     catch_up |-> "none", log |-> SaveLog(persist)]

Current == Manager(index, message_mapping, last_indexed_message_id, disk)

Install(st) ==
    /\ index' = st.index
    /\ message_mapping' = st.message_mapping
    /\ last_indexed_message_id' = st.last_indexed_message_id
    /\ disk' = st.disk

Init ==
    /\ db_max_id = 0
    /\ db_eligible = {}
    /\ pc = "down"
    /\ embedding_model_name = DefaultModel
    /\ index = <<>>
    /\ message_mapping = EmptyMapping
    /\ last_indexed_message_id = 0
    /\ disk = NoDisk
    /\ lastOp = Op("none", "none", "none")
    /\ lastResult = <<>>
    /\ pfiles = NoFiles
    /\ last_save = NoSave
    /\ load_result = NoLoad
    /\ tool_pc = "down"
    /\ tool_dict = Unset
    /\ tool_index = Unset
    /\ tool_mapping = Unset
    /\ tool_op = NoToolOp
    /\ call = NoCall
    /\ loop_pc = "reading"
    /\ conversations = <<>>
    /\ current_conversation = 0
    /\ input_data = NoInput
    /\ loop_op = NoLoopOp
    /\ messages_table = <<>>
    /\ current_sequence_number = 0

\* The conversation store inserts a message (utils/conversation_history.py);
\* the process is single-threaded, so never in the middle of a handler
AddMessage(eligible) ==
    /\ pc \in {"down", "ready"}
    /\ db_max_id < MaxMsgs
    /\ db_max_id' = db_max_id + 1
    /\ db_eligible' = IF eligible THEN db_eligible \cup {db_max_id + 1} ELSE db_eligible
    /\ lastOp' = Op("add_message", "none", "none")
    /\ lastResult' = <<>>
    /\ UNCHANGED <<pc, embedding_model_name, index, message_mapping,
                   last_indexed_message_id, disk>>
    /\ UNCHANGED <<pvars, tvars, call, lvars>>

\* __init__ / _initialize_index up to the call of the catch-up
Construct(model, readOk, fetchOk, embedOk, persist) ==
    /\ pc = "down"
    /\ embedding_model_name' = model
    /\ lastResult' = <<>>
    /\ UNCHANGED <<db_max_id, db_eligible>>
    /\ UNCHANGED <<pvars, tvars, call, lvars>>
    /\ LET loaded == LoadPersistedIndex(disk, model, readOk)
           adopt == /\ enable_persistence
                    /\ loaded.is_valid
                    /\ DOMAIN loaded.mapping # {}
           mapping == IntKeys(loaded.mapping)
           built == BuildIndexFromScratch(Manager(<<>>, EmptyMapping, 0, disk),
                                          model, db_eligible, fetchOk, embedOk, persist)
       IN IF adopt
          THEN /\ Install(Manager(loaded.index, mapping,
                                  MaxOf({mapping[p] : p \in DOMAIN mapping}), disk))
               /\ pc' = "init_catchup"
               /\ lastOp' = Op("construct", "loaded", "none")
          ELSE /\ Install(built)
               /\ pc' = "ready"
               /\ lastOp' = IF built.index = <<>>
                            THEN Op("construct", "empty", "none")
                            ELSE Op("construct", "built", persist)

\* _update_index_incrementally, called by _initialize_index and by
\* search_similar_messages
CatchUp(fetchOk, embedOk, persist) ==
    /\ pc \in {"init_catchup", "search_catchup"}
    /\ Len(UpdateIndexIncrementally(Current, embedding_model_name, db_eligible,
                                    fetchOk, embedOk, persist).index) <= MaxVectors
    /\ LET new == FetchMessagesForEmbedding(db_eligible, last_indexed_message_id, fetchOk)
       IN /\ Install(UpdateIndexIncrementally(Current, embedding_model_name, db_eligible,
                                              fetchOk, embedOk, persist))
          /\ lastOp' = IF ~fetchOk THEN Op("catch_up", "fetch_failed", "none")
                       ELSE IF new = <<>> THEN Op("catch_up", "noop", "none")
                       ELSE IF ~embedOk THEN Op("catch_up", "embed_failed", "none")
                       ELSE Op("catch_up", "added", persist)
    /\ pc' = IF pc = "init_catchup" THEN "ready" ELSE "search_query"
    /\ lastResult' = <<>>
    /\ UNCHANGED <<db_max_id, db_eligible, embedding_model_name>>
    /\ UNCHANGED <<pvars, tvars, call, lvars>>

\* search_similar_messages up to the catch-up: the guard on the empty index
SearchBegin ==
    /\ pc = "ready"
    /\ IF Len(index) = 0
       THEN /\ pc' = "ready"
            /\ lastOp' = [Op("search", "empty_index", "none") EXCEPT !.catch_up = "skipped"]
       ELSE /\ pc' = "search_catchup"
            /\ lastOp' = Op("search_begin", "none", "none")
    /\ lastResult' = <<>>
    /\ UNCHANGED <<db_max_id, db_eligible, embedding_model_name, index,
                   message_mapping, last_indexed_message_id, disk>>
    /\ UNCHANGED <<pvars, tvars, call, lvars>>

\* search_similar_messages after the catch-up
SearchQuery(query, k, exclude, args, encodeOk) ==
    /\ pc = "search_query"
    /\ lastResult' = SearchLoop(index, message_mapping, embedding_model_name,
                                query, k, exclude, args, encodeOk)
    /\ lastOp' = [Op("search", IF encodeOk THEN "returned" ELSE "failed", "none")
                    EXCEPT !.catch_up = lastOp.outcome]
    /\ pc' = "ready"
    /\ UNCHANGED <<db_max_id, db_eligible, embedding_model_name, index,
                   message_mapping, last_indexed_message_id, disk>>
    /\ UNCHANGED <<pvars, tvars, call, lvars>>

\* rebuild_index (the 'rebuild' command)
Rebuild(fetchOk, embedOk, persist) ==
    /\ pc = "ready"
    /\ LET st == RebuildIndex(Current, embedding_model_name, db_eligible,
                              fetchOk, embedOk, persist)
       IN /\ Install(st)
          /\ lastOp' = IF ~fetchOk THEN Op("rebuild", "fetch_failed", "none")
                       ELSE IF db_eligible = {} THEN Op("rebuild", "empty", "none")
                       ELSE IF ~embedOk THEN Op("rebuild", "embed_failed", "none")
                       ELSE Op("rebuild", "built", persist)
    /\ lastResult' = <<>>
    /\ UNCHANGED <<db_max_id, db_eligible, pc, embedding_model_name>>
    /\ UNCHANGED <<pvars, tvars, call, lvars>>

\* The process ends (exit, kill, power loss): the files stay as they are
Crash ==
    /\ pc # "down"
    /\ pc' = "down"
    /\ index' = <<>>
    /\ message_mapping' = EmptyMapping
    /\ last_indexed_message_id' = 0
    /\ lastOp' = Op("crash", "none", "none")
    /\ lastResult' = <<>>
    /\ UNCHANGED <<db_max_id, db_eligible, embedding_model_name, disk>>
    /\ UNCHANGED <<pvars, tvars, call, lvars>>

\* The two callers of search_similar_messages and what they pass:
\* CommandHandler._search_similar_messages (k=10, 0.3, default 30 days) and
\* get_contextual_messages_for_response with max_context_pairs=3 (k=6, 0.6, 7 days)
SearchArgs ==
    {[k |-> 10, min_similarity_score |-> 30, max_age_days |-> 30],
     [k |-> 6, min_similarity_score |-> 60, max_age_days |-> 7]}

\* What the environment does to one call: the source read fails, the
\* embedding call fails, or the persist ends in one of PersistOutcomes
Envs == {"fetch_failed", "embed_failed"} \cup PersistOutcomes
FetchOk(env) == env # "fetch_failed"
EmbedOk(env) == env # "embed_failed"
PersistOf(env) == IF env \in PersistOutcomes THEN env ELSE "ok"

MNext ==
    \/ \E eligible \in BOOLEAN : AddMessage(eligible)
    \/ \E model \in ModelNames, readOk \in BOOLEAN, env \in Envs :
          Construct(model, readOk, FetchOk(env), EmbedOk(env), PersistOf(env))
    \/ \E env \in Envs : CatchUp(FetchOk(env), EmbedOk(env), PersistOf(env))
    \/ SearchBegin
    \/ \E query \in 1..MaxMsgs, current_conversation_id \in 0..1,
          args \in SearchArgs, encodeOk \in BOOLEAN :
          SearchQuery(query, args.k, {current_conversation_id}, args, encodeOk)
    \/ \E env \in Envs : Rebuild(FetchOk(env), EmbedOk(env), PersistOf(env))
    \/ Crash

Spec == Init /\ [][MNext]_vars

-----------------------------------------------------------------------------
(* FaissPersistenceManager over the tool catalog *)

\* A tool row: query_examples is a string or a list of strings
Tool(id, description, python_function, query_examples) ==
    [id |-> id, description |-> description,
     python_function |-> python_function, query_examples |-> query_examples]
QString(text) == [is_list |-> FALSE, items |-> <<text>>]
QList(items) == [is_list |-> TRUE, items |-> items]

\* The tool names of the model, in the order sorted() gives them
NameOrder == <<"joke", "time", "weather">>

BaseTools ==
    ("joke" :> Tool(1, "tells a joke", "run_joke", QString("tell me a joke")))
    @@ ("weather" :> Tool(2, "gets the weather", "run_wthr", QString("what is the weather")))

WithField(tools, name, field, value) ==
    [tools EXCEPT ![name] =
        [id |-> IF field = "id" THEN value ELSE @.id,
         description |-> IF field = "description" THEN value ELSE @.description,
         python_function |-> IF field = "python_function" THEN value ELSE @.python_function,
         query_examples |-> IF field = "query_examples" THEN value ELSE @.query_examples]]

Renamed(tools, name, new_name) ==
    [n \in (DOMAIN tools \ {name}) \cup {new_name} |->
        IF n = new_name THEN tools[name] ELSE tools[n]]

Without(tools, name) == [n \in DOMAIN tools \ {name} |-> tools[n]]

\* The snapshots load_db_tools can return: the base catalog, every change of
\* one field of one row to a value of the same length, one row more, one fewer
Catalogs ==
    {BaseTools,
     WithField(BaseTools, "joke", "id", 3),
     WithField(BaseTools, "joke", "description", "finds a joke"),
     WithField(BaseTools, "joke", "python_function", "get_joke"),
     WithField(BaseTools, "joke", "query_examples", QString("tell us a joke")),
     WithField(BaseTools, "joke", "query_examples", QList(<<"tell me", "a joke">>)),
     Renamed(BaseTools, "joke", "time"),
     Without(BaseTools, "joke"),
     BaseTools @@ ("time" :> Tool(3, "tells the time", "run_time", QString("what time is it")))}

PModelNames == {DefaultModel, "all-mpnet-base-v2"}
ModelDimension(model) == IF model = DefaultModel THEN 384 ELSE 768

\* MAX(updated_at) of the active tools: 0 stands for no timestamp (NULL)
DbUpdates == 0..2

\* sorted(tools_data.keys()), were the keys left in dict order
SortedKeys_DictOrder(rows) == rows

\* sorted(tools_data.keys()): the keys of the dict, whatever their order in
\* it, in string order
SortedKeys(rows) ==
    SelectSeq(NameOrder, LAMBDA n : \E i \in 1..Len(rows) : rows[i] = n)

RECURSIVE Join(_, _)
Join(items, sep) ==
    IF items = <<>> THEN ""
    ELSE IF Len(items) = 1 THEN items[1]
    ELSE items[1] \o sep \o Join(Tail(items), sep)

\* f"{tool['query_examples']}": a string as it is, a list as its repr
QueryExamplesRepr(q) ==
    IF q.is_list
    THEN "[" \o Join([i \in 1..Len(q.items) |-> "'" \o q.items[i] \o "'"], ", ") \o "]"
    ELSE q.items[1]

\* hashlib.sha256(...).hexdigest(): a digest that names its input (no collisions)
Sha256(text) == [sha256 |-> text]

ToolRepr(tools, name) ==
    Str(tools[name].id) \o "|" \o name \o "|" \o tools[name].description
        \o "|" \o QueryExamplesRepr(tools[name].query_examples)

\* calculate_tools_checksum(tools_data): rows is the order of the dict's keys
CalculateToolsChecksum(tools, rows) ==
    LET names == SortedKeys(rows)
    IN Sha256(Join([i \in 1..Len(names) |-> ToolRepr(tools, names[i])], "|"))

\* get_database_last_update: the timestamp, or None (0) when there is none
\* or when the query raises
GetDatabaseLastUpdate(db_update, probeOk) == IF probeOk THEN db_update ELSE 0

\* The orders in which the query of load_db_tools (no ORDER BY) can return
\* the rows: the dict keeps that order
RowOrders(tools) ==
    {rows \in [1..Cardinality(DOMAIN tools) -> DOMAIN tools] :
        \A i, j \in DOMAIN rows : rows[i] = rows[j] => i = j}

\* prepare_embeddings: one vector per tool in dict order, from its joined
\* query examples, and the mapping position -> {"name": name, **row}
PrepareEmbeddings(tools, rows, model) ==
    LET names == rows
    IN [vectors |-> [i \in 1..Len(names) |->
                        Embed(model, Join(tools[names[i]].query_examples.items, " "))],
        mapping |-> [p \in 0..(Len(names) - 1) |->
                        [name |-> names[p + 1], row |-> tools[names[p + 1]]]]]

\* create_faiss_index
CreateFaissIndex(vectors, model) == [vectors |-> vectors, d |-> ModelDimension(model)]

RECURSIVE SumOver(_, _)
SumOver(f, S) ==
    IF S = {} THEN 0
    ELSE LET x == CHOOSE y \in S : TRUE IN f[x] + SumOver(f, S \ {x})

\* os.path.getsize of the written index: four bytes per float
IndexBytes(idx) == Len(idx.vectors) * idx.d * 4

\* os.path.getsize of the written mapping: the characters of keys and values
MappingBytes(dumped) ==
    SumOver([k \in DOMAIN dumped |->
                Len(k) + Len(dumped[k].name) + Len(Str(dumped[k].row.id))
                + Len(dumped[k].row.description) + Len(dumped[k].row.python_function)
                + Len(QueryExamplesRepr(dumped[k].row.query_examples))],
            DOMAIN dumped)

ToolsMetadata(idx, tools, rows, model, last_db_update, index_size, mapping_size) ==
    [tools_count |-> Cardinality(DOMAIN tools),
     tools_checksum |-> CalculateToolsChecksum(tools, rows),
     embedding_model |-> model,
     vector_dimension |-> idx.d,
     last_db_update |-> last_db_update,
     index_file_size |-> index_size,
     mapping_file_size |-> mapping_size]

\* save_index_with_metadata, were the sizes taken before the files are written
SaveIndexWithMetadata_StaleSizes(files, idx, mapping, tools, rows, model, last_db_update, outcome) ==
    [files |-> [index_file |-> PFile(idx, IndexBytes(idx)),
                mapping_file |-> PFile(DumpMapping(mapping),
                                       MappingBytes(DumpMapping(mapping))),
                metadata_file |-> PFile(ToolsMetadata(idx, tools, rows, model, last_db_update,
                                                      files.index_file.size,
                                                      files.mapping_file.size), 0)],
     success |-> TRUE]

\* save_index_with_metadata: index, then mapping, then metadata (with the
\* sizes of the two files as they are on disk), each written in place
SaveIndexWithMetadata(files, idx, mapping, tools, rows, model, last_db_update, outcome) ==
    LET i1 == CASE outcome = "index_unwritten" -> files.index_file
                [] outcome = "index_partial" -> PPartial(0)
                [] OTHER -> PFile(idx, IndexBytes(idx))
        m1 == CASE outcome \in {"index_unwritten", "index_partial", "mapping_unwritten"}
                     -> files.mapping_file
                [] outcome = "mapping_partial" -> PPartial(0)
                [] OTHER -> PFile(DumpMapping(mapping),
                                  MappingBytes(DumpMapping(mapping)))
        d1 == CASE outcome = "ok"
                     -> PFile(ToolsMetadata(idx, tools, rows, model, last_db_update,
                                            i1.size, m1.size), 0)
                [] outcome = "metadata_partial" -> PPartial(0)
                [] OTHER -> files.metadata_file
    IN [files |-> [index_file |-> i1, mapping_file |-> m1, metadata_file |-> d1],
        success |-> outcome = "ok"]

\* load_index_with_validation, were the checksum not compared
LoadIndexWithValidation_NoChecksum(files, tools, rows, model, current_db_update, readFail) ==
    IF "absent" \in {files.index_file.kind, files.metadata_file.kind, files.mapping_file.kind}
    THEN Invalid
    ELSE IF readFail # "none" \/ "garbled" \in {files.index_file.kind,
                 files.metadata_file.kind, files.mapping_file.kind} THEN Invalid
    ELSE LET metadata == files.metadata_file.content
         IN IF \/ metadata.embedding_model # model
               \/ metadata.tools_count # Cardinality(DOMAIN tools)
               \/ files.index_file.size # metadata.index_file_size
               \/ files.mapping_file.size # metadata.mapping_file_size
               \/ (current_db_update # 0 /\ metadata.last_db_update # current_db_update)
               \/ files.index_file.content.d # metadata.vector_dimension
            THEN Invalid
            ELSE [index |-> files.index_file.content,
                  tool_mapping |-> files.mapping_file.content,
                  is_valid |-> TRUE]

\* load_index_with_validation.  readFail names the read that raises, if any.
LoadIndexWithValidation(files, tools, rows, model, current_db_update, readFail) ==
    IF "absent" \in {files.index_file.kind, files.metadata_file.kind, files.mapping_file.kind}
    THEN Invalid
    ELSE IF readFail = "metadata" \/ files.metadata_file.kind = "garbled" THEN Invalid
    ELSE LET metadata == files.metadata_file.content
             issues ==
                 \/ metadata.embedding_model # model
                 \/ metadata.tools_count # Cardinality(DOMAIN tools)
                 \/ metadata.tools_checksum # CalculateToolsChecksum(tools, rows)
                 \/ files.index_file.size # metadata.index_file_size
                 \/ files.mapping_file.size # metadata.mapping_file_size
                 \/ (current_db_update # 0 /\ metadata.last_db_update # current_db_update)
         IN IF issues THEN Invalid
            ELSE IF readFail = "index" \/ files.index_file.kind = "garbled" THEN Invalid
            ELSE IF readFail = "mapping" \/ files.mapping_file.kind = "garbled" THEN Invalid
            ELSE IF files.index_file.content.d # metadata.vector_dimension THEN Invalid
            ELSE [index |-> files.index_file.content,
                  tool_mapping |-> files.mapping_file.content,
                  is_valid |-> TRUE]

\* One entry of the log: the event and the validation issues its text names
LogEntry(event, issues) == [event |-> event, issues |-> issues]

\* What load_index_with_validation writes to the log, in order
LoadValidationLog(files, tools, rows, model, current_db_update, readFail) ==
    IF "absent" \in {files.index_file.kind, files.metadata_file.kind, files.mapping_file.kind}
    THEN <<LogEntry("faiss_index_missing", {})>>
    ELSE IF readFail = "metadata" \/ files.metadata_file.kind = "garbled"
    THEN <<LogEntry("faiss_index_load_failed", {})>>
    ELSE LET metadata == files.metadata_file.content
             validation_issues ==
                 {"embedding_model" : x \in {1} \ {y \in {1} : metadata.embedding_model = model}}
                 \cup {"tools_count" : x \in {1} \ {y \in {1} :
                           metadata.tools_count = Cardinality(DOMAIN tools)}}
                 \cup {"tools_checksum" : x \in {1} \ {y \in {1} :
                           metadata.tools_checksum = CalculateToolsChecksum(tools, rows)}}
                 \cup {"index_file_size" : x \in {1} \ {y \in {1} :
                           files.index_file.size = metadata.index_file_size}}
                 \cup {"mapping_file_size" : x \in {1} \ {y \in {1} :
                           files.mapping_file.size = metadata.mapping_file_size}}
                 \cup {"last_db_update" : x \in {1} \ {y \in {1} :
                           ~(current_db_update # 0
                             /\ metadata.last_db_update # current_db_update)}}
         IN IF validation_issues # {}
            THEN <<LogEntry("faiss_index_invalid", validation_issues)>>
            ELSE IF readFail \in {"index", "mapping"}
                    \/ "garbled" \in {files.index_file.kind, files.mapping_file.kind}
            THEN <<LogEntry("faiss_index_load_failed", {})>>
            ELSE IF files.index_file.content.d # metadata.vector_dimension
            THEN <<>>
            ELSE <<LogEntry("faiss_index_loaded", {})>>

\* The snapshots the index is built and saved from
SavedCatalogs == {BaseTools, Without(BaseTools, "joke")}

\* What can go wrong in one load: the read of one of the files raises
ReadFailures == {"none", "metadata", "index", "mapping"}

\* _build_index_from_scratch and _save_index_to_disk of ToolEmbeddingsManager:
\* the index and mapping of the snapshot, handed to save_index_with_metadata
PSave(tools, rows, model, db_update, probeOk, outcome) ==
    /\ ~load_result.called
    /\ LET prepared == PrepareEmbeddings(tools, rows, model)
           saved == SaveIndexWithMetadata(pfiles,
                        CreateFaissIndex(prepared.vectors, model), prepared.mapping,
                        tools, rows, model, GetDatabaseLastUpdate(db_update, probeOk), outcome)
       IN /\ pfiles' = saved.files
          /\ last_save' = IF saved.success
                          THEN [status |-> "ok", tools |-> tools, rows |-> rows,
                                model |-> model, db_update |-> db_update,
                                probeOk |-> probeOk]
                          ELSE [NoSave EXCEPT !.status = "failed"]
    /\ UNCHANGED load_result
    /\ UNCHANGED <<mvars, tvars, call, lvars>>

\* The index file or the mapping file loses its last byte
PTruncate(which) ==
    /\ ~load_result.called
    /\ pfiles[which].kind = "file"
    /\ pfiles' = [pfiles EXCEPT ![which] = PPartial(@.size - 1)]
    /\ UNCHANGED <<last_save, load_result>>
    /\ UNCHANGED <<mvars, tvars, call, lvars>>

\* One call of load_index_with_validation
PLoad(tools, rows, model, db_update, probeOk, readFail) ==
    /\ ~load_result.called
    /\ LET current_db_update == GetDatabaseLastUpdate(db_update, probeOk)
       IN load_result' =
              [called |-> TRUE, tools |-> tools, model |-> model,
               current_db_update |-> current_db_update, readFail |-> readFail,
               result |-> LoadIndexWithValidation(pfiles, tools, rows, model,
                                                  current_db_update, readFail),
               log |-> LoadValidationLog(pfiles, tools, rows, model,
                                         current_db_update, readFail)]
    /\ UNCHANGED <<pfiles, last_save>>
    /\ UNCHANGED <<mvars, tvars, call, lvars>>

\* The caller takes the return value
PReturn ==
    /\ load_result.called
    /\ load_result' = NoLoad
    /\ UNCHANGED <<pfiles, last_save>>
    /\ UNCHANGED <<mvars, tvars, call, lvars>>

PNext ==
    \/ \E tools \in SavedCatalogs, model \in PModelNames, db_update \in DbUpdates,
          probeOk \in BOOLEAN, outcome \in PersistOutcomes :
          \E rows \in RowOrders(tools) :
              PSave(tools, rows, model, db_update, probeOk, outcome)
    \/ \E which \in {"index_file", "mapping_file"} : PTruncate(which)
    \/ \E tools \in Catalogs, model \in PModelNames, db_update \in DbUpdates,
          probeOk \in BOOLEAN, readFail \in ReadFailures :
          \E rows \in RowOrders(tools) :
              PLoad(tools, rows, model, db_update, probeOk, readFail)
    \/ PReturn

SpecPersist == Init /\ [][PNext]_vars

-----------------------------------------------------------------------------
(* ToolEmbeddingsManager: ranking (query_tools_optimized, _fallback_search) *)

\* Scores are exact fractions n/d with d > 0, in lowest terms
RECURSIVE Gcd(_, _)
Gcd(a, b) == IF b = 0 THEN a ELSE Gcd(b, a % b)
Frac(n, d) ==
    LET g == Gcd(IF n < 0 THEN 0 - n ELSE n, d)
    IN [n |-> n \div g, d |-> d \div g]
FAdd(a, b) == Frac(a.n * b.d + b.n * a.d, a.d * b.d)
FSub(a, b) == Frac(a.n * b.d - b.n * a.d, a.d * b.d)
FMul(a, b) == Frac(a.n * b.n, a.d * b.d)
FLe(a, b) == a.n * b.d <= b.n * a.d
FMin(a, b) == IF FLe(a, b) THEN a ELSE b
FMax(a, b) == IF FLe(a, b) THEN b ELSE a
FAbs(a) == IF a.n < 0 THEN Frac(0 - a.n, a.d) ELSE a

\* The texts of the model as the words str.split() finds in them
KnownWords ==
    {<<>>,
     <<"weather">>, <<"jokes">>, <<"please">>,
     <<"tell", "me">>, <<"a", "joke">>,
     <<"tells", "a", "joke">>, <<"finds", "a", "joke">>,
     <<"gets", "the", "weather">>, <<"tells", "the", "time">>,
     <<"tell", "me", "a", "joke">>, <<"tell", "us", "a", "joke">>,
     <<"what", "is", "the", "weather">>, <<"what", "time", "is", "it">>,
     <<"Tell", "me", "a", "joke">>,
     <<"tell", "me", "a", "really", "funny", "joke">>,
     <<"reports", "the", "weather", "forecast", "of", "a", "city">>}

\* text.split(): the words whose join with single spaces is the text
Split(text) == CHOOSE words \in KnownWords : Join(words, " ") = text

\* word.lower()
Lower(word) == IF word = "Tell" THEN "tell" ELSE word

LowerWords(text) == {Lower(Split(text)[i]) : i \in 1..Len(Split(text))}

\* index.search(query_vector, k): the k nearest positions, nearest first
\* (equal distances by position), padded with position -1 when the index
\* holds fewer than k vectors.  dists[p + 1] is the squared L2 distance of the
\* query to the vector at position p, in hundredths.
RECURSIVE Nearest(_, _)
Nearest(dists, left) ==
    IF left = {} THEN <<>>
    ELSE LET p == CHOOSE x \in left : \A y \in left :
                      \/ dists[x + 1] < dists[y + 1]
                      \/ (dists[x + 1] = dists[y + 1] /\ x <= y)
         IN <<[i |-> p, dist |-> dists[p + 1]]>> \o Nearest(dists, left \ {p})

FaissSearch(dists, k) ==
    LET found == Nearest(dists, 0..(Len(dists) - 1))
    IN [j \in 1..k |-> IF j <= Len(found) THEN found[j] ELSE [i |-> -1, dist |-> 1000000]]

\* What a call of the ranking returns, or that it raised
Returned(results) == [raised |-> FALSE, results |-> results]
Raised == [raised |-> TRUE, results |-> <<>>]

\* _fallback_search, were the threshold not relaxed (twice what it is given)
FallbackSearch_Unrelaxed(mapping, dists, relaxed_threshold, max_candidates, zeroKRaises) ==
    LET k == max_candidates * 2
        hits == SelectSeq(FaissSearch(dists, k), LAMBDA h : h.i # -1 /\ h.dist <= 120)
        semantic(h) == FMax(Frac(0, 1), FSub(Frac(1, 1), Frac(h.dist, 120)))
        kept == SelectSeq(hits, LAMBDA h : FLe(FMul(relaxed_threshold, Frac(2, 1)), semantic(h)))
        fallback_candidates ==
            [j \in 1..Len(kept) |->
                [name |-> mapping[kept[j].i].name, row |-> mapping[kept[j].i].row,
                 semantic_score |-> semantic(kept[j]),
                 combined_score |-> semantic(kept[j]),
                 distance |-> kept[j].dist, llm_priority |-> "fallback"]]
    IN IF k = 0 /\ zeroKRaises THEN Raised
       ELSE IF \E j \in 1..Len(hits) : hits[j].i \notin DOMAIN mapping THEN Raised
       ELSE Returned(SubSeq(fallback_candidates, 1, Min2(max_candidates, Len(kept))))

\* _fallback_search(user_query, relaxed_threshold, max_candidates);
\* zeroKRaises: whether the index library rejects k = 0 or returns nothing
FallbackSearch(mapping, dists, relaxed_threshold, max_candidates, zeroKRaises) ==
    LET k == max_candidates * 2
        hits == SelectSeq(FaissSearch(dists, k), LAMBDA h : h.i # -1 /\ h.dist <= 120)
        semantic(h) == FMax(Frac(0, 1), FSub(Frac(1, 1), Frac(h.dist, 120)))
        kept == SelectSeq(hits, LAMBDA h : FLe(relaxed_threshold, semantic(h)))
        fallback_candidates ==
            [j \in 1..Len(kept) |->
                [name |-> mapping[kept[j].i].name, row |-> mapping[kept[j].i].row,
                 semantic_score |-> semantic(kept[j]),
                 combined_score |-> semantic(kept[j]),
                 distance |-> kept[j].dist, llm_priority |-> "fallback"]]
    IN IF k = 0 /\ zeroKRaises THEN Raised
       ELSE IF \E j \in 1..Len(hits) : hits[j].i \notin DOMAIN mapping THEN Raised
       ELSE Returned(SubSeq(fallback_candidates, 1, Min2(max_candidates, Len(kept))))

\* The factors of one candidate
QueryExampleTokens(q) ==
    IF q.is_list THEN SumOver([j \in 1..Len(q.items) |-> Len(Split(q.items[j]))],
                              1..Len(q.items))
    ELSE Len(Split(q.items[1]))

QueryExampleWords(q) == UNION {LowerWords(q.items[j]) : j \in 1..Len(q.items)}

LengthScore(user_query, row) ==
    LET length_ratio == Frac(Len(Split(user_query)),
                             Max2(1, QueryExampleTokens(row.query_examples)))
        clamped == FMin(Frac(3, 1), FMax(Frac(33, 100), length_ratio))
    IN FSub(Frac(1, 1), FMul(FAbs(FSub(Frac(1, 1), clamped)), Frac(1, 2)))

DescriptionFactor(user_query, row) ==
    FMin(Frac(1, 1), Frac(Len(Split(row.description)), Max2(1, Len(Split(user_query)))))

KeywordBonus(user_query, row) ==
    LET query_words == LowerWords(user_query)
    IN FMul(Frac(Cardinality(query_words \cap QueryExampleWords(row.query_examples)),
                 Max2(1, Cardinality(query_words))),
            Frac(1, 5))

CombinedScore(semantic_score, user_query, row) ==
    FAdd(FAdd(FMul(Frac(1, 2), semantic_score),
              FMul(Frac(1, 4), LengthScore(user_query, row))),
         FAdd(FMul(Frac(3, 20), DescriptionFactor(user_query, row)),
              FMul(Frac(1, 10), KeywordBonus(user_query, row))))

\* The sort, were it ascending and then reversed: equal scores come out in
\* reverse order
RECURSIVE SortByCombined_TiesReversed(_)
SortByCombined_TiesReversed(candidates) ==
    IF candidates = <<>> THEN <<>>
    ELSE LET best == CHOOSE j \in 1..Len(candidates) :
                        /\ \A l \in 1..Len(candidates) :
                              FLe(candidates[l].combined_score, candidates[j].combined_score)
                        /\ \A l \in (j + 1)..Len(candidates) :
                              candidates[l].combined_score # candidates[j].combined_score
         IN <<candidates[best]>> \o
            SortByCombined_TiesReversed([l \in 1..(Len(candidates) - 1) |->
                               IF l < best THEN candidates[l] ELSE candidates[l + 1]])

\* candidates.sort(key=combined_score, reverse=True): stable, equal scores
\* keep their order
RECURSIVE SortByCombined(_)
SortByCombined(candidates) ==
    IF candidates = <<>> THEN <<>>
    ELSE LET best == CHOOSE j \in 1..Len(candidates) :
                        /\ \A l \in 1..Len(candidates) :
                              FLe(candidates[l].combined_score, candidates[j].combined_score)
                        /\ \A l \in 1..(j - 1) :
                              candidates[l].combined_score # candidates[j].combined_score
         IN <<candidates[best]>> \o
            SortByCombined([l \in 1..(Len(candidates) - 1) |->
                               IF l < best THEN candidates[l] ELSE candidates[l + 1]])

\* The tier, were 0.6 the threshold of high_confidence
LlmPriority_OneThreshold(combined_score) ==
    IF FLe(Frac(3, 5), combined_score) THEN "high_confidence" ELSE "low_confidence"

\* Phase 4: the tier of a candidate of the primary path
LlmPriority(combined_score) ==
    IF FLe(Frac(4, 5), combined_score) THEN "high_confidence"
    ELSE IF FLe(Frac(3, 5), combined_score) THEN "standard"
    ELSE "low_confidence"

\* query_tools_optimized without the semantic gates of lines 87 and 160: the
\* distance bound alone admits a candidate
QueryToolsOptimized_NoSemanticGate(mapping, user_query, dists, max_candidates, min_semantic_score, zeroKRaises) ==
    LET search_k == Min2(15, Cardinality(DOMAIN mapping) * 2)
        hits == SelectSeq(FaissSearch(dists, search_k),
                          LAMBDA h : h.i # -1 /\ h.dist <= 80)
        semantic(h) == FMax(Frac(0, 1), FSub(Frac(1, 1), Frac(h.dist, 80)))
        candidates ==
            [j \in 1..Len(hits) |->
                LET combined_score == CombinedScore(semantic(hits[j]), user_query,
                                                    mapping[hits[j].i].row)
                IN [name |-> mapping[hits[j].i].name, row |-> mapping[hits[j].i].row,
                    semantic_score |-> semantic(hits[j]),
                    keyword_bonus |-> KeywordBonus(user_query, mapping[hits[j].i].row),
                    combined_score |-> combined_score,
                    distance |-> hits[j].dist,
                    llm_priority |-> LlmPriority(combined_score)]]
    IN IF search_k = 0 /\ zeroKRaises THEN Raised
       ELSE IF \E j \in 1..Len(hits) : hits[j].i \notin DOMAIN mapping THEN Raised
       ELSE IF hits = <<>>
            THEN FallbackSearch(mapping, dists, FMul(min_semantic_score, Frac(1, 2)),
                                max_candidates, zeroKRaises)
       ELSE Returned(SubSeq(SortByCombined(candidates), 1,
                            Min2(max_candidates, Len(hits))))

\* query_tools_optimized(user_query, max_candidates, min_semantic_score);
\* min_semantic_score is a fraction
QueryToolsOptimized(mapping, user_query, dists, max_candidates, min_semantic_score, zeroKRaises) ==
    LET search_k == Min2(15, Cardinality(DOMAIN mapping) * 2)
        hits == SelectSeq(FaissSearch(dists, search_k),
                          LAMBDA h : h.i # -1 /\ h.dist <= 80)
        semantic(h) == FMax(Frac(0, 1), FSub(Frac(1, 1), Frac(h.dist, 80)))
        kept == SelectSeq(hits, LAMBDA h : FLe(min_semantic_score, semantic(h)))
        candidates ==
            [j \in 1..Len(kept) |->
                LET combined_score == CombinedScore(semantic(kept[j]), user_query,
                                                    mapping[kept[j].i].row)
                IN [name |-> mapping[kept[j].i].name, row |-> mapping[kept[j].i].row,
                    semantic_score |-> semantic(kept[j]),
                    keyword_bonus |-> KeywordBonus(user_query, mapping[kept[j].i].row),
                    combined_score |-> combined_score,
                    distance |-> kept[j].dist,
                    llm_priority |-> LlmPriority(combined_score)]]
        final_candidates == SubSeq(SortByCombined(candidates), 1,
                                   Min2(max_candidates, Len(kept)))
    IN IF search_k = 0 /\ zeroKRaises THEN Raised
       ELSE IF \E j \in 1..Len(hits) : hits[j].i \notin DOMAIN mapping THEN Raised
       ELSE IF kept = <<>>
            THEN FallbackSearch(mapping, dists, FMul(min_semantic_score, Frac(1, 2)),
                                max_candidates, zeroKRaises)
       ELSE Returned(SelectSeq(final_candidates,
                               LAMBDA c : FLe(min_semantic_score, c.semantic_score)))

\* The function returns to its caller
Return ==
    /\ call # NoCall
    /\ call' = NoCall
    /\ UNCHANGED <<mvars, pvars, tvars, lvars>>

\* Catalogs to rank: the base catalog, the same with the sole example in a
\* list, and one whose first tool has a one-word description and a long example
BriefTools ==
    ("joke" :> Tool(1, "jokes", "run_joke", QString("tell me a really funny joke")))
    @@ ("weather" :> Tool(2, "reports the weather forecast of a city", "run_wthr",
                          QString("what is the weather")))

RankCatalogs ==
    {BaseTools,
     WithField(BaseTools, "joke", "query_examples", QList(<<"tell me a joke">>)),
     BriefTools,
     Without(BaseTools, "joke")}

RankQueries ==
    {"tell me a joke", "Tell me a joke", "tell me a really funny joke",
     "what is the weather"}

\* max_candidates and min_semantic_score (in hundredths) as the callers pass
\* them: ToolSelectionService (10, 0.3), query_tools (k, 0.4)
RankArgs ==
    {[max_candidates |-> 10, min_semantic_score |-> 30],
     [max_candidates |-> 3, min_semantic_score |-> 40],
     [max_candidates |-> 1, min_semantic_score |-> 40]}

\* Squared L2 distances in hundredths, on both sides of every threshold of
\* the ranking for min_semantic_score 0.3 and 0.4
DistValues == {0, 10, 48, 56, 57, 96, 97, 102, 103, 121}

\* The text prepare_embeddings embeds for a row
EmbeddedText(row) == Join(row.query_examples.items, " ")

\* The distances an embedding model can give: 0 to the vector of the same
\* text and only to that
DistancesFor(mapping, user_query) ==
    {dists \in [1..Cardinality(DOMAIN mapping) -> DistValues] :
        \A j \in DOMAIN dists :
            (dists[j] = 0) <=> (EmbeddedText(mapping[j - 1].row) = user_query)}

\* One call of query_tools_optimized on a manager built from the catalog
Rank(tools, rows, user_query, dists, max_candidates, min_semantic_score, zeroKRaises) ==
    /\ call = NoCall
    /\ LET mapping == PrepareEmbeddings(tools, rows, DefaultModel).mapping
       IN call' = [fn |-> "query_tools_optimized", tool_mapping |-> mapping,
                   user_query |-> user_query, dists |-> dists,
                   max_candidates |-> max_candidates,
                   min_semantic_score |-> min_semantic_score,
                   result |-> QueryToolsOptimized(mapping, user_query, dists,
                                  max_candidates, Frac(min_semantic_score, 100),
                                  zeroKRaises)]
    /\ UNCHANGED <<mvars, pvars, tvars, lvars>>

\* A catalog of more tools than the primary search asks neighbours for: fifteen
\* weather tools and, at the last position, a joke tool
ManyToolsCount == 16

ManyTools ==
    [p \in 0..(ManyToolsCount - 1) |->
        [name |-> "tool" \o Str(p + 1),
         row |-> IF p = ManyToolsCount - 1
                 THEN Tool(p + 1, "tells a joke", "run_joke", QString("tell us a joke"))
                 ELSE Tool(p + 1, "gets the weather", "run_wthr",
                           QString("what is the weather"))]]

\* Distances of a query to the vectors of ManyTools: all equal; nearer in the
\* second half; nearer the later the position; part beyond 0.8; all beyond 0.8
ManyDists ==
    {[j \in 1..ManyToolsCount |-> 20],
     [j \in 1..ManyToolsCount |-> IF j <= 8 THEN 20 ELSE 10],
     [j \in 1..ManyToolsCount |-> 36 - j],
     [j \in 1..ManyToolsCount |-> 6 * j],
     [j \in 1..ManyToolsCount |-> 90 + j]}

\* One call of query_tools_optimized on a manager holding ManyTools
RankMany(user_query, dists, max_candidates, min_semantic_score) ==
    /\ call = NoCall
    /\ call' = [fn |-> "query_tools_optimized", tool_mapping |-> ManyTools,
                user_query |-> user_query, dists |-> dists,
                max_candidates |-> max_candidates,
                min_semantic_score |-> min_semantic_score,
                result |-> QueryToolsOptimized(ManyTools, user_query, dists,
                               max_candidates, Frac(min_semantic_score, 100), TRUE)]
    /\ UNCHANGED <<mvars, pvars, tvars, lvars>>

\* should_skip_llm_evaluation with the semantic threshold at the combined
\* one, 0.85
ShouldSkipLlmEvaluation_Semantic85(tool_candidate, user_query) ==
    LET keyword_bonus == IF "keyword_bonus" \in DOMAIN tool_candidate
                         THEN tool_candidate.keyword_bonus ELSE Frac(0, 1)
    IN \/ FLe(Frac(85, 100), tool_candidate.combined_score) /\ FLe(Frac(1, 10), keyword_bonus)
       \/ Len(Split(user_query)) <= 5 /\ FLe(Frac(85, 100), tool_candidate.semantic_score)

\* should_skip_llm_evaluation(tool_candidate, user_query): a high combined
\* score with a keyword match, or a short query with a high semantic score; a
\* record without keyword_bonus counts as 0
ShouldSkipLlmEvaluation(tool_candidate, user_query) ==
    LET keyword_bonus == IF "keyword_bonus" \in DOMAIN tool_candidate
                         THEN tool_candidate.keyword_bonus ELSE Frac(0, 1)
    IN \/ FLe(Frac(85, 100), tool_candidate.combined_score) /\ FLe(Frac(1, 10), keyword_bonus)
       \/ Len(Split(user_query)) <= 5 /\ FLe(Frac(9, 10), tool_candidate.semantic_score)

\* Distances on both sides of the thresholds of the two tiers for the
\* min_semantic_score values 0, 0.3, 0.85 and 0.86
SkipDistValues == {12, 13, 57, 69, 81, 103, 121}

\* query_tools_optimized on the base catalog, then should_skip_llm_evaluation
\* on each candidate it returned
SkipEvaluation(user_query, dists, max_candidates, min_semantic_score) ==
    /\ call = NoCall
    /\ LET mapping == PrepareEmbeddings(BaseTools, <<"joke", "weather">>, DefaultModel).mapping
           ranked == QueryToolsOptimized(mapping, user_query, dists, max_candidates,
                                         Frac(min_semantic_score, 100), TRUE)
       IN call' = [fn |-> "should_skip_llm_evaluation", user_query |-> user_query,
                   dists |-> dists, max_candidates |-> max_candidates,
                   min_semantic_score |-> min_semantic_score,
                   result |-> ranked,
                   skips |-> [j \in 1..Len(ranked.results) |->
                                 ShouldSkipLlmEvaluation(ranked.results[j], user_query)]]
    /\ UNCHANGED <<mvars, pvars, tvars, lvars>>

KNext ==
    \/ \E user_query \in {"Tell me a joke", "tell me a really funny joke"},
          dists \in [1..2 -> SkipDistValues], max_candidates \in {1, 10},
          min_semantic_score \in {0, 30, 85, 86} :
          SkipEvaluation(user_query, dists, max_candidates, min_semantic_score)
    \/ Return

SpecSkip == Init /\ [][KNext]_vars

RNext ==
    \/ \E tools \in RankCatalogs, user_query \in RankQueries, args \in RankArgs :
          \E rows \in RowOrders(tools) :
              \E dists \in DistancesFor(PrepareEmbeddings(tools, rows, DefaultModel).mapping,
                                        user_query) :
                  Rank(tools, rows, user_query, dists, args.max_candidates,
                       args.min_semantic_score, TRUE)
    \/ \E dists \in ManyDists, max_candidates \in {3, 10, 20}, min_semantic_score \in {30, 40} :
          RankMany("tell me a joke", dists, max_candidates, min_semantic_score)
    \/ Return

SpecRank == Init /\ [][RNext]_vars

-----------------------------------------------------------------------------
(* ToolEmbeddingsManager: construction, rebuild and ranking as a state machine *)

\* The manager's attributes and the files, as one value the operations transform
ToolManager(dict, idx, mapping, files) ==
    [tool_dict |-> dict, index |-> idx, tool_mapping |-> mapping, files |-> files]

\* load_db_tools: the rows as a dict in row order; {} when the query fails
LoadDbTools(tools, rows, catalogOk) ==
    IF catalogOk THEN [rows |-> rows, data |-> tools] ELSE EmptyDict

\* _build_index_from_scratch.  The embedding call may raise (nothing is
\* assigned).  For an empty dict encode([]) gives an array without a second
\* axis: prepare_embeddings returns, tool_mapping becomes {}, and
\* create_faiss_index raises on vectors.shape[1] before self.index is assigned.
BuildToolIndexFromScratch(st, embedOk) ==
    LET prepared == PrepareEmbeddings(st.tool_dict.data, st.tool_dict.rows, DefaultModel)
    IN IF ~embedOk THEN [st |-> st, raised |-> TRUE]
       ELSE IF st.tool_dict.rows = <<>>
       THEN [st |-> ToolManager(st.tool_dict, st.index, EmptyMapping, st.files),
             raised |-> TRUE]
       ELSE [st |-> ToolManager(st.tool_dict,
                                CreateFaissIndex(prepared.vectors, DefaultModel),
                                prepared.mapping, st.files),
             raised |-> FALSE]

\* _save_index_to_disk of the tool manager, called after a build that assigned
\* index and tool_mapping: a failed save is only logged
SaveToolIndexToDisk(st, last_db_update, outcome) ==
    IF enable_persistence
    THEN ToolManager(st.tool_dict, st.index, st.tool_mapping,
                     SaveIndexWithMetadata(st.files, st.index, st.tool_mapping,
                                           st.tool_dict.data, st.tool_dict.rows,
                                           DefaultModel, last_db_update, outcome).files)
    ELSE st

\* _load_with_persistence.  Returns the manager, whether the call raised, how
\* it got its index and how many tool embeddings it computed.
LoadWithPersistence(files, dict, last_db_update, readFail, embedOk, outcome) ==
    LET fresh == ToolManager(dict, Unset, Unset, files)
        loaded == LoadIndexWithValidation(files, dict.data, dict.rows, DefaultModel,
                                          last_db_update, readFail)
        built == BuildToolIndexFromScratch(fresh, embedOk)
        computed == IF embedOk THEN Len(dict.rows) ELSE 0
    IN IF ~enable_persistence \/ dict.rows = <<>>
       THEN [st |-> built.st, raised |-> built.raised, how |-> "built_unsaved",
             embedded |-> computed]
       ELSE IF loaded.is_valid /\ DOMAIN loaded.tool_mapping # {}
       THEN [st |-> ToolManager(dict, loaded.index, IntKeys(loaded.tool_mapping), files),
             raised |-> FALSE, how |-> "loaded", embedded |-> 0]
       ELSE IF built.raised
       THEN [st |-> built.st, raised |-> TRUE, how |-> "built", embedded |-> computed]
       ELSE [st |-> SaveToolIndexToDisk(built.st, last_db_update, outcome),
             raised |-> FALSE, how |-> "built", embedded |-> computed]

\* rebuild_index(save_to_disk=True): nothing is caught
RebuildToolIndex(st, dict, last_db_update, embedOk, outcome) ==
    LET built == BuildToolIndexFromScratch(
                     ToolManager(dict, st.index, st.tool_mapping, st.files), embedOk)
    IN IF built.raised THEN built
       ELSE [st |-> SaveToolIndexToDisk(built.st, last_db_update, outcome),
             raised |-> FALSE]

\* The distances of a query to the vectors of the index: 0 to the vector of
\* the same text, 1.0 to every other
ToolDistances(idx, user_query) ==
    [j \in 1..Len(idx.vectors) |-> IF idx.vectors[j].text = user_query THEN 0 ELSE 100]

ToolOp(op, outcome) ==
    [op |-> op, outcome |-> outcome, env_ok |-> TRUE, embedded |-> 0,
     persisted |-> FALSE, result |-> Returned(<<>>), user_query |-> "",
     zeroKRaises |-> TRUE]

\* The mapping after a rank, had the scores been written to the records
\* themselves instead of to copies
MappingAfterRank_InPlace(mapping, result) ==
    [p \in DOMAIN mapping |->
        IF \E j \in 1..Len(result.results) : result.results[j].name = mapping[p].name
        THEN [name |-> mapping[p].name, row |-> mapping[p].row,
              llm_priority |-> "scored"]
        ELSE mapping[p]]

\* The mapping after a rank: tool_data = self.tool_mapping[i].copy() and
\* tool_data.update(...) write the scores and the tier to a copy of the record
MappingAfterRank(mapping, result) == mapping

ToolCurrent == ToolManager(tool_dict, tool_index, tool_mapping, pfiles)

ToolInstall(st) ==
    /\ tool_dict' = st.tool_dict
    /\ tool_index' = st.index
    /\ tool_mapping' = st.tool_mapping
    /\ pfiles' = st.files

\* The catalogs of the tools table: the base catalog, the same with another
\* handler for one tool, one tool fewer, and no active tool
ToolCatalogs ==
    {BaseTools,
     WithField(BaseTools, "joke", "python_function", "get_joke"),
     Without(BaseTools, "joke"),
     <<>>}

\* ToolEmbeddingsManager(): __init__ and _load_with_persistence.  When it
\* raises there is no manager.
ToolConstruct(tools, rows, catalogOk, last_db_update, readFail, embedOk, outcome) ==
    /\ tool_pc = "down"
    /\ LET dict == LoadDbTools(tools, rows, catalogOk)
           done == LoadWithPersistence(pfiles, dict, last_db_update, readFail,
                                       embedOk, outcome)
       IN /\ IF done.raised
             THEN /\ tool_pc' = "down"
                  /\ ToolInstall(ToolManager(Unset, Unset, Unset, done.st.files))
             ELSE /\ tool_pc' = "ready"
                  /\ ToolInstall(done.st)
          /\ tool_op' = [ToolOp("construct",
                                IF done.raised THEN "raised" ELSE done.how)
                           EXCEPT !.env_ok = catalogOk /\ embedOk /\ readFail = "none"
                                             /\ outcome = "ok",
                                  !.embedded = done.embedded,
                                  !.persisted = ~done.raised /\ done.how = "built"
                                                /\ outcome = "ok"]
    /\ UNCHANGED <<mvars, last_save, load_result, call, lvars>>

\* rebuild_index()
ToolRebuild(tools, rows, catalogOk, last_db_update, embedOk, outcome) ==
    /\ tool_pc = "ready"
    /\ LET dict == LoadDbTools(tools, rows, catalogOk)
           done == RebuildToolIndex(ToolCurrent, dict, last_db_update, embedOk, outcome)
       IN /\ ToolInstall(done.st)
          /\ tool_op' = [ToolOp("rebuild",
                                IF ~done.raised THEN "rebuilt"
                                ELSE IF ~embedOk THEN "embed_failed"
                                ELSE "no_rows")
                           EXCEPT !.env_ok = catalogOk /\ embedOk /\ outcome = "ok",
                                  !.embedded = IF embedOk THEN Len(dict.rows) ELSE 0,
                                  !.persisted = ~done.raised /\ outcome = "ok"]
    /\ UNCHANGED tool_pc
    /\ UNCHANGED <<mvars, last_save, load_result, call, lvars>>

\* query_tools_optimized on the manager
ToolRank(user_query, args, encodeOk, zeroKRaises) ==
    /\ tool_pc = "ready"
    /\ LET result == IF encodeOk
                     THEN QueryToolsOptimized(tool_mapping, user_query,
                              ToolDistances(tool_index, user_query),
                              args.max_candidates, Frac(args.min_semantic_score, 100),
                              zeroKRaises)
                     ELSE Raised
       IN /\ tool_op' = [ToolOp("rank", IF result.raised THEN "raised" ELSE "returned")
                           EXCEPT !.env_ok = encodeOk, !.result = result,
                                  !.user_query = user_query,
                                  !.zeroKRaises = zeroKRaises]
          /\ tool_mapping' = MappingAfterRank(tool_mapping, result)
    /\ UNCHANGED <<tool_pc, tool_dict, tool_index, pfiles>>
    /\ UNCHANGED <<mvars, last_save, load_result, call, lvars>>

\* The process ends: the files stay
ToolExit ==
    /\ tool_pc = "ready"
    /\ tool_pc' = "down"
    /\ ToolInstall(ToolManager(Unset, Unset, Unset, pfiles))
    /\ tool_op' = ToolOp("exit", "none")
    /\ UNCHANGED <<mvars, last_save, load_result, call, lvars>>

\* What the environment does to one call of the tool manager
ToolEnvs ==
    {"catalog_failed", "embed_failed", "read_failed", "ok", "mapping_unwritten",
     "metadata_unwritten"}

\* The row orders the tools query is taken to return: by name, and reversed
ToolRowOrders(tools) ==
    LET byName == SelectSeq(NameOrder, LAMBDA n : n \in DOMAIN tools)
    IN {byName, [i \in 1..Len(byName) |-> byName[Len(byName) + 1 - i]]}

\* The arguments of the callers: max_candidates=10, min_semantic_score=0.3
CallerArgs == [max_candidates |-> 10, min_semantic_score |-> 30]

TNext ==
    \/ \E tools \in ToolCatalogs, last_db_update \in 0..1, env \in ToolEnvs :
          \E rows \in ToolRowOrders(tools) :
              ToolConstruct(tools, rows, env # "catalog_failed", last_db_update,
                            IF env = "read_failed" THEN "index" ELSE "none",
                            env # "embed_failed", PersistOf(env))
    \/ \E tools \in ToolCatalogs, env \in ToolEnvs \ {"read_failed"} :
          \E rows \in ToolRowOrders(tools) :
              ToolRebuild(tools, rows, env # "catalog_failed", 1,
                          env # "embed_failed", PersistOf(env))
    \/ \E user_query \in {"tell me a joke", "what is the weather"},
          env \in {"ok", "encode_failed", "zero_k_returns"} :
          ToolRank(user_query, CallerArgs, env # "encode_failed", env # "zero_k_returns")
    \/ ToolExit

SpecTools == Init /\ [][TNext]_vars

-----------------------------------------------------------------------------
(* search_similar_messages and get_contextual_messages_for_response as      *)
(* functions of the index, the messages table and their arguments           *)

\* The assistant rows of the messages table that answer a user message
AssistantRows ==
    {[id |-> 11, parent_message_id |-> 3, sequence_number |-> 3],
     [id |-> 12, parent_message_id |-> 3, sequence_number |-> 2],
     [id |-> 13, parent_message_id |-> 4, sequence_number |-> 2],
     [id |-> 14, parent_message_id |-> 5, sequence_number |-> 2]}

NoRow == [id |-> 0, parent_message_id |-> 0, sequence_number |-> 0]

\* The lookup, were the rows ordered by sequence number descending
FindAssistantResponse_Last(replies, user_message_id, lookupOk) ==
    LET linked == {r \in replies : r.parent_message_id = user_message_id}
    IN IF ~lookupOk \/ linked = {} THEN NoRow
       ELSE CHOOSE r \in linked :
                \A o \in linked : r.sequence_number >= o.sequence_number

\* _find_assistant_response_for_user_message: the first assistant row by
\* sequence number whose parent is the message; None when there is none or
\* the query fails
FindAssistantResponse(replies, user_message_id, lookupOk) ==
    LET linked == {r \in replies : r.parent_message_id = user_message_id}
    IN IF ~lookupOk \/ linked = {} THEN NoRow
       ELSE CHOOSE r \in linked :
                \A o \in linked : r.sequence_number <= o.sequence_number

\* The loop of get_contextual_messages_for_response, were a candidate
\* without reply to end the loop once the slots left equal the candidates left
RECURSIVE ContextPairsFrom_CountsSkipped(_, _, _, _, _, _, _)
ContextPairsFrom_CountsSkipped(similar, i, used, acc, max_context_pairs, roles, found) ==
    IF i > Len(similar) \/ used >= max_context_pairs THEN acc
    ELSE IF roles[similar[i].id] # "user"
    THEN ContextPairsFrom_CountsSkipped(similar, i + 1, used, acc,
                                        max_context_pairs, roles, found)
    ELSE ContextPairsFrom_CountsSkipped(similar, i + 1, used + 1,
             IF found[similar[i].id].id = 0 THEN acc
             ELSE Append(acc, [user_message |-> similar[i].id,
                               assistant_response |-> found[similar[i].id].id]),
             max_context_pairs, roles, found)

ContextPairs_CountsSkipped(similar, max_context_pairs, roles, found) ==
    ContextPairsFrom_CountsSkipped(similar, 1, 0, <<>>, max_context_pairs, roles, found)

\* The loop of get_contextual_messages_for_response over the search results
RECURSIVE ContextPairsFrom(_, _, _, _, _, _)
ContextPairsFrom(similar, i, context_pairs, max_context_pairs, roles, found) ==
    IF i > Len(similar) THEN context_pairs
    ELSE IF roles[similar[i].id] # "user" \/ Len(context_pairs) >= max_context_pairs
    THEN ContextPairsFrom(similar, i + 1, context_pairs, max_context_pairs, roles, found)
    ELSE ContextPairsFrom(similar, i + 1,
             IF found[similar[i].id].id = 0 THEN context_pairs
             ELSE Append(context_pairs,
                         [user_message |-> similar[i].id,
                          assistant_response |-> found[similar[i].id].id]),
             max_context_pairs, roles, found)

ContextPairs(similar, max_context_pairs, roles, found) ==
    ContextPairsFrom(similar, 1, <<>>, max_context_pairs, roles, found)

\* search_similar_messages on an index that is up to date
SearchSimilarMessages(idx, mapping, model, query, k, exclude, args, encodeOk) ==
    IF Len(idx) = 0 THEN <<>>
    ELSE SearchLoop(idx, mapping, model, query, k, exclude, args, encodeOk)

\* The arguments get_contextual_messages_for_response searches with
ContextArgs == [min_similarity_score |-> 60, max_age_days |-> 7]

\* The indexes searched: built in id order from these messages
IndexedSets == {{}, {3, 4, 5}, {1, 2, 3, 4, 5}, {2, 4, 5}}
IndexOf(ids, model) == [i \in 1..Cardinality(ids) |-> Embed(model, SortedSeq(ids)[i])]
MappingOf(ids) == [p \in 0..(Cardinality(ids) - 1) |-> SortedSeq(ids)[p + 1]]
RoleSets == [3..5 -> {"user", "assistant"}]
RolesOf(roles) == [id \in 1..5 |-> IF id \in DOMAIN roles THEN roles[id] ELSE "user"]

FindSimilar(ids, query, k, exclude, args, encodeOk) ==
    /\ call = NoCall
    /\ call' = [fn |-> "search_similar_messages", ids |-> ids, query |-> query, k |-> k,
                exclude_conversation_ids |-> exclude, args |-> args,
                encodeOk |-> encodeOk,
                result |-> SearchSimilarMessages(IndexOf(ids, DefaultModel), MappingOf(ids),
                               DefaultModel, query, k, exclude, args, encodeOk)]
    /\ UNCHANGED <<mvars, pvars, tvars, lvars>>

GetContextualMessagesForResponse(ids, user_query, current_conversation_id, max_context_pairs, roles, replies, lookupOk) ==
    /\ call = NoCall
    /\ LET similar == SearchSimilarMessages(IndexOf(ids, DefaultModel), MappingOf(ids),
                          DefaultModel, user_query, max_context_pairs * 2,
                          {current_conversation_id}, ContextArgs, TRUE)
           found == [id \in 1..5 |-> FindAssistantResponse(replies, id, lookupOk)]
       IN call' = [fn |-> "get_contextual_messages_for_response",
                   ids |-> ids, user_query |-> user_query,
                   current_conversation_id |-> current_conversation_id,
                   max_context_pairs |-> max_context_pairs,
                   roles |-> RolesOf(roles), replies |-> replies,
                   lookupOk |-> lookupOk, similar |-> similar,
                   result |-> ContextPairs(similar, max_context_pairs, RolesOf(roles),
                                           found)]
    /\ UNCHANGED <<mvars, pvars, tvars, lvars>>

\* The assistant rows in the table: none, all, and all but those of one message
ReplySets ==
    {{}, AssistantRows} \cup
    {{r \in AssistantRows : r.parent_message_id # id} : id \in 3..5}

\* max_age_days: None is written -1
FindArgs ==
    {[min_similarity_score |-> m, max_age_days |-> a] : m \in {0, 30, 80}, a \in {-1, 0, 7, 30}}

QNext ==
    \/ \E ids \in IndexedSets, query \in {2, 4}, k \in {1, 2, 10},
          exclude \in {{}, {1}, {2}}, args \in FindArgs, encodeOk \in BOOLEAN :
          FindSimilar(ids, query, k, exclude, args, encodeOk)
    \/ \E ids \in IndexedSets, user_query \in {4, 5}, current_conversation_id \in {0, 2, 3},
          max_context_pairs \in 0..2, roles \in RoleSets,
          replies \in ReplySets, lookupOk \in BOOLEAN :
          GetContextualMessagesForResponse(ids, user_query, current_conversation_id,
                                           max_context_pairs, roles, replies, lookupOk)
    \/ Return

SpecSearch == Init /\ [][QNext]_vars

-----------------------------------------------------------------------------
(* The message index used from two threads: one runs a rebuild or a         *)
(* catch-up statement by statement, the other starts a search.  No          *)
(* statement of either takes a lock.  The environment does not fail.        *)

\* The rows _fetch_messages_for_embedding(self.last_indexed_message_id) returns
NewMessages == FetchMessagesForEmbedding(db_eligible, last_indexed_message_id, TRUE)

\* _update_index_incrementally up to self.index.add(new_embeddings)
ThreadCatchUpAdd ==
    /\ pc = "ready"
    /\ NewMessages # <<>>
    /\ Len(index) + Len(NewMessages) <= MaxVectors
    /\ index' = index \o GenerateEmbeddingsForMessages(embedding_model_name, NewMessages)
    /\ pc' = "catchup_added"
    /\ lastOp' = Op("catch_up", "index_added", "none")
    /\ lastResult' = <<>>
    /\ UNCHANGED <<db_max_id, db_eligible, embedding_model_name, message_mapping,
                   last_indexed_message_id, disk>>
    /\ UNCHANGED <<pvars, tvars, call, lvars>>

\* _update_index_incrementally from the mapping update to the save
ThreadCatchUpMap ==
    /\ pc = "catchup_added"
    /\ LET start_idx == Cardinality(DOMAIN message_mapping)
           added == start_idx..(start_idx + Len(NewMessages) - 1)
           mapping == [p \in (DOMAIN message_mapping) \cup added |->
                          IF p \in added THEN NewMessages[p - start_idx + 1]
                          ELSE message_mapping[p]]
           last == MaxOf({NewMessages[i] : i \in 1..Len(NewMessages)})
       IN /\ message_mapping' = mapping
          /\ last_indexed_message_id' = last
          /\ disk' = IF enable_persistence
                     THEN SaveIndexToDisk(disk, index, mapping, last, embedding_model_name,
                                          MappingValues(mapping), "ok")
                     ELSE disk
    /\ pc' = "ready"
    /\ lastOp' = Op("catch_up", "added", "ok")
    /\ lastResult' = <<>>
    /\ UNCHANGED <<db_max_id, db_eligible, embedding_model_name, index>>
    /\ UNCHANGED <<pvars, tvars, call, lvars>>

\* rebuild_index up to the call of _build_index_from_scratch
ThreadRebuildReset ==
    /\ pc = "ready"
    /\ last_indexed_message_id' = 0
    /\ message_mapping' = EmptyMapping
    /\ pc' = "rebuild_reset"
    /\ lastOp' = Op("rebuild", "reset", "none")
    /\ lastResult' = <<>>
    /\ UNCHANGED <<db_max_id, db_eligible, embedding_model_name, index, disk>>
    /\ UNCHANGED <<pvars, tvars, call, lvars>>

\* rebuild_index: _build_index_from_scratch
ThreadRebuildBuild ==
    /\ pc = "rebuild_reset"
    /\ Install(BuildIndexFromScratch(Current, embedding_model_name, db_eligible,
                                     TRUE, TRUE, "ok"))
    /\ pc' = "ready"
    /\ lastOp' = Op("rebuild", "built", "ok")
    /\ lastResult' = <<>>
    /\ UNCHANGED <<db_max_id, db_eligible, embedding_model_name>>
    /\ UNCHANGED <<pvars, tvars, call, lvars>>

\* search_similar_messages entered by the other thread: what it reads of
\* self.index, self.message_mapping and the watermark
ThreadSearch ==
    /\ pc \in {"ready", "catchup_added", "rebuild_reset"}
    /\ call = NoCall
    /\ call' = [fn |-> "search_similar_messages_thread",
                ntotal |-> Len(index),
                mapped |-> Cardinality(DOMAIN message_mapping),
                last_indexed_message_id |-> last_indexed_message_id,
                writer |-> pc]
    /\ UNCHANGED <<mvars, pvars, tvars, lvars>>

ThNext ==
    \/ \E eligible \in BOOLEAN : AddMessage(eligible)
    \/ Construct(DefaultModel, TRUE, TRUE, TRUE, "ok")
    \/ CatchUp(TRUE, TRUE, "ok")
    \/ ThreadCatchUpAdd
    \/ ThreadCatchUpMap
    \/ ThreadRebuildReset
    \/ ThreadRebuildBuild
    \/ ThreadSearch
    \/ Return
    \/ Crash

SpecThreads == Init /\ [][ThNext]_vars

-----------------------------------------------------------------------------
(* calculate_tools_checksum as a function of the dict it is given *)

AllTools ==
    BaseTools @@ ("time" :> Tool(3, "tells the time", "run_time", QString("what time is it")))

\* A row and the rows that differ from it in one field
VariantsOf(row) ==
    {row,
     [row EXCEPT !.id = @ + 3],
     [row EXCEPT !.description = @ \o " now"],
     [row EXCEPT !.python_function = @ \o "_v2"],
     [row EXCEPT !.query_examples = QString(@.items[1] \o " please")],
     [row EXCEPT !.query_examples = QList(<<@.items[1], "please">>)]}

\* Every dict over some of the names, each name with one of its rows
ChecksumCatalogs ==
    UNION {{tools \in [names -> UNION {VariantsOf(AllTools[n]) : n \in names}] :
               \A n \in names : tools[n] \in VariantsOf(AllTools[n])} :
           names \in SUBSET DOMAIN AllTools}

\* calculate_tools_checksum(tools_data) for a dict with keys in the order rows
Checksum(tools, rows) ==
    /\ call = NoCall
    /\ call' = [fn |-> "calculate_tools_checksum", tools |-> tools, rows |-> rows,
                digest |-> CalculateToolsChecksum(tools, rows)]
    /\ UNCHANGED <<mvars, pvars, tvars, lvars>>

CNext ==
    \/ \E tools \in ChecksumCatalogs : \E rows \in RowOrders(tools) : Checksum(tools, rows)
    \/ Return

SpecChecksum == Init /\ [][CNext]_vars

-----------------------------------------------------------------------------
(* The input handler, the command handler and the orchestrator's loop
   (utils/input_handler.py, commands/command_handler.py,
   orchestrator/orchestrator.py).  A str is a sequence of one-character
   strings; "x01" and "x7f" stand for the control characters \x01 and \x7f,
   and "x1f" for \x1f, which is both a control character and white space. *)

MinInputLength == 2
MaxInputLength == 1000

\* What str.strip() strips and \s matches
Whitespace == {" ", "\t", "\n", "x1f"}

\* [\x00-\x08\x0B\x0C\x0E-\x1F\x7F]
ControlChars == {"x01", "x7f", "x1f"}

LowerChars == <<"a", "b", "c", "d", "e", "f", "g", "h", "i", "j", "k", "l", "m", "n", "o", "p", "q", "r", "s", "t", "u", "v", "w", "x", "y", "z">>
UpperChars == <<"A", "B", "C", "D", "E", "F", "G", "H", "I", "J", "K", "L", "M", "N", "O", "P", "Q", "R", "S", "T", "U", "V", "W", "X", "Y", "Z">>

\* str.lower()
LowerCase(s) ==
    [i \in 1..Len(s) |->
        IF \E j \in 1..26 : UpperChars[j] = s[i]
        THEN LowerChars[CHOOSE j \in 1..26 : UpperChars[j] = s[i]]
        ELSE s[i]]

\* str.strip()
Strip(s) ==
    LET kept == {i \in 1..Len(s) : s[i] \notin Whitespace}
    IN IF kept = {} THEN <<>> ELSE SubSeq(s, MinOf(kept), MaxOf(kept))

\* re.sub(r'\s+', ' ', s): every run of white space becomes one space
CollapseWhitespace(s) ==
    LET marked == [i \in 1..Len(s) |->
                      IF s[i] \notin Whitespace THEN s[i]
                      ELSE IF i > 1 /\ s[i - 1] \in Whitespace THEN "" ELSE " "]
    IN SelectSeq(marked, LAMBDA c : c # "")

\* sanitize_input: strip, drop the control characters, collapse white space
\* (the result is not stripped again)
SanitizeInput(user_input) ==
    CollapseWhitespace(SelectSeq(Strip(user_input), LAMBDA c : c \notin ControlChars))

ExitCommands ==
    {<<"e", "x", "i", "t">>,
     <<"q", "u", "i", "t">>,
     <<"b", "y", "e">>,
     <<"g", "o", "o", "d", "b", "y", "e">>}

HelpCommands ==
    {<<"h", "e", "l", "p">>,
     <<"/", "h", "e", "l", "p">>,
     <<"?">>}

ClearCommands ==
    {<<"c", "l", "e", "a", "r">>,
     <<"/", "c", "l", "e", "a", "r">>,
     <<"r", "e", "s", "e", "t">>}

\* command_patterns, in the order of the dict
CommandPatterns ==
    <<[action |-> "history",
       patterns |-> {<<"h", "i", "s", "t", "o", "r", "y">>, <<"/", "h", "i", "s", "t", "o", "r", "y">>}],
      [action |-> "conversations",
       patterns |-> {<<"c", "o", "n", "v", "e", "r", "s", "a", "t", "i", "o", "n", "s">>, <<"/", "c", "o", "n", "v", "e", "r", "s", "a", "t", "i", "o", "n", "s">>}],
      [action |-> "stats",
       patterns |-> {<<"s", "t", "a", "t", "s">>, <<"/", "s", "t", "a", "t", "s">>}],
      [action |-> "search",
       patterns |-> {<<"s", "e", "a", "r", "c", "h">>, <<"/", "s", "e", "a", "r", "c", "h">>}],
      [action |-> "embeddings",
       patterns |-> {<<"e", "m", "b", "e", "d", "d", "i", "n", "g", "s">>, <<"/", "e", "m", "b", "e", "d", "d", "i", "n", "g", "s">>}],
      [action |-> "rebuild",
       patterns |-> {<<"r", "e", "b", "u", "i", "l", "d">>, <<"/", "r", "e", "b", "u", "i", "l", "d">>}],
      [action |-> "summarise_conv",
       patterns |-> {<<"s", "u", "m", "m", "a", "r", "i", "s", "e", "_", "c", "o", "n", "v">>, <<"/", "s", "u", "m", "m", "a", "r", "i", "s", "e", "_", "c", "o", "n", "v">>, <<"s", "u", "m", "m", "a", "r", "i", "z", "e", "_", "c", "o", "n", "v">>, <<"/", "s", "u", "m", "m", "a", "r", "i", "z", "e", "_", "c", "o", "n", "v">>, <<"s", "u", "m", "m", "a", "r", "i", "s", "e">>, <<"/", "s", "u", "m", "m", "a", "r", "i", "s", "e">>}]>>

StartsWith(s, prefix) ==
    Len(s) >= Len(prefix) /\ SubSeq(s, 1, Len(prefix)) = prefix

\* process_input with the length check placed ahead of the command checks
ProcessInput_LengthFirst(user_input) ==
    LET s == SanitizeInput(user_input)
        lowered == LowerCase(s)
        hits == {i \in 1..Len(CommandPatterns) :
                    \E p \in CommandPatterns[i].patterns :
                        lowered = p \/ StartsWith(lowered, p \o <<" ">>)}
    IN IF s = <<>> THEN [text |-> <<>>, type |-> "invalid", action |-> "empty"]
       ELSE IF Len(s) > MaxInputLength
       THEN [text |-> SubSeq(s, 1, MaxInputLength), type |-> "invalid", action |-> "too_long"]
       ELSE IF Len(s) < MinInputLength
       THEN [text |-> s, type |-> "invalid", action |-> "too_short"]
       ELSE IF lowered \in ExitCommands THEN [text |-> s, type |-> "command", action |-> "exit"]
       ELSE IF lowered \in HelpCommands THEN [text |-> s, type |-> "command", action |-> "help"]
       ELSE IF lowered \in ClearCommands THEN [text |-> s, type |-> "command", action |-> "clear"]
       ELSE IF hits # {}
       THEN [text |-> s, type |-> "command", action |-> CommandPatterns[MinOf(hits)].action]
       ELSE [text |-> s, type |-> "message", action |-> "process"]

\* process_input(user_input): sanitise, reject the empty and the too long,
\* then the three command lists, then the patterns in dict order (the word
\* alone or followed by a space), then the minimum length
ProcessInput(user_input) ==
    LET s == SanitizeInput(user_input)
        lowered == LowerCase(s)
        hits == {i \in 1..Len(CommandPatterns) :
                    \E p \in CommandPatterns[i].patterns :
                        lowered = p \/ StartsWith(lowered, p \o <<" ">>)}
    IN IF s = <<>> THEN [text |-> <<>>, type |-> "invalid", action |-> "empty"]
       ELSE IF Len(s) > MaxInputLength
       THEN [text |-> SubSeq(s, 1, MaxInputLength), type |-> "invalid", action |-> "too_long"]
       ELSE IF lowered \in ExitCommands THEN [text |-> s, type |-> "command", action |-> "exit"]
       ELSE IF lowered \in HelpCommands THEN [text |-> s, type |-> "command", action |-> "help"]
       ELSE IF lowered \in ClearCommands THEN [text |-> s, type |-> "command", action |-> "clear"]
       ELSE IF hits # {}
       THEN [text |-> s, type |-> "command", action |-> CommandPatterns[MinOf(hits)].action]
       ELSE IF Len(s) < MinInputLength
       THEN [text |-> s, type |-> "invalid", action |-> "too_short"]
       ELSE [text |-> s, type |-> "message", action |-> "process"]

\* get_user_input: the line read, processed; Ctrl+C and end of input give an
\* 'exit' record of their own
GetUserInput(user_input, interrupted) ==
    IF interrupted THEN [text |-> <<>>, type |-> "exit", action |-> "interrupt"]
    ELSE ProcessInput(user_input)

\* A handler that returned no value
NoResult == [returned |-> FALSE]

\* _handle_exit's return value
HandleExit == [returned |-> TRUE, should_exit |-> TRUE, reason |-> "user_exit"]

\* handle_command with the exit branch calling its handler as the other
\* branches do, without returning its value
HandleCommand_ExitNotReturned(action) == NoResult

\* handle_command(action, full_input): only the exit branch returns its
\* handler's value
HandleCommand(action) ==
    IF action = "exit" THEN HandleExit ELSE NoResult

MaxConversations == 2

\* The most rows the messages table and the sequence counter are followed to
MaxStoredMessages == 5

\* The manager's fields and the two tables it writes
History ==
    [conversations |-> conversations, current_conversation |-> current_conversation,
     current_sequence_number |-> current_sequence_number, messages |-> messages_table]

SetHistory(h) ==
    /\ conversations' = h.conversations
    /\ current_conversation' = h.current_conversation
    /\ current_sequence_number' = h.current_sequence_number
    /\ messages_table' = h.messages

\* start_new_conversation: the INSERT gives the new id, which becomes the
\* current one with the counter at 0; a failure is logged and raised
StartNewConversation(h, db_ok) ==
    IF db_ok
    THEN [h |-> [h EXCEPT !.conversations = Append(@, FALSE),
                          !.current_conversation = Len(h.conversations) + 1,
                          !.current_sequence_number = 0],
          raised |-> FALSE]
    ELSE [h |-> h, raised |-> TRUE]

\* add_message: a conversation is started when there is none; the counter is
\* incremented, then the row is inserted with it; a failed INSERT is raised
\* with the counter already incremented
HistoryAddMessage(h, role, content, tool_id, parent_message_id, start_ok, insert_ok) ==
    LET started == IF h.current_conversation = 0
                   THEN StartNewConversation(h, start_ok)
                   ELSE [h |-> h, raised |-> FALSE]
        counted == [started.h EXCEPT !.current_sequence_number = @ + 1]
        row == [conversation_id |-> counted.current_conversation, role |-> role,
                content |-> content, tool_id |-> tool_id,
                parent_message_id |-> parent_message_id,
                sequence_number |-> counted.current_sequence_number]
    IN IF started.raised THEN [h |-> h, raised |-> TRUE, message_id |-> 0]
       ELSE IF insert_ok
       THEN [h |-> [counted EXCEPT !.messages = Append(@, row)], raised |-> FALSE,
             message_id |-> Len(counted.messages) + 1]
       ELSE [h |-> counted, raised |-> TRUE, message_id |-> 0]

\* end_current_conversation: nothing to do without a current conversation;
\* the UPDATE marks the row ended, the id is forgotten and the counter is
\* reset; a failed UPDATE is logged and leaves everything as it was
EndCurrentConversation(h, db_ok) ==
    IF h.current_conversation = 0 THEN h
    ELSE IF db_ok
    THEN [h EXCEPT !.conversations[h.current_conversation] = TRUE,
                   !.current_conversation = 0,
                   !.current_sequence_number = 0]
    ELSE h

\* The ids of the tools in the catalog
CatalogIds == {1, 2}

\* What query_tools_optimized can hand to the loop: tool ids in rank order
ToolCandidates == {<<>>, <<1>>, <<2, 1>>}

\* A question long enough for the message index to embed it
LongMessage == <<"t", "e", "l", "l", " ", "a", " ", "j", "o", "k", "e">>

\* The content of the row add_tool_response stores
ToolContent == <<"T", "o", "o", "l">>

\* The content of an assistant row
AssistantContent == <<"o", "k">>

\* The least content length of a row the message index embeds
MinContentLength == 10

\* _find_assistant_response_for_user_message: the assistant row that answers
\* the user row, the one of least sequence number; 0 when there is none
FindReply(rows, user_id) ==
    LET replies == {i \in 1..Len(rows) : rows[i].role = "assistant"
                                          /\ rows[i].parent_message_id = user_id}
    IN IF replies = {} THEN 0
       ELSE CHOOSE i \in replies :
               \A j \in replies : rows[i].sequence_number < rows[j].sequence_number \/ i <= j

\* The user rows a search can find for a query of the conversation: embedded
\* ones of other conversations that have a reply
PairableRows(rows, conversation_id) ==
    {i \in 1..Len(rows) : /\ rows[i].role = "user"
                           /\ Len(rows[i].content) >= MinContentLength
                           /\ rows[i].conversation_id # conversation_id
                           /\ FindReply(rows, i) # 0}

\* get_contextual_messages_for_response: pairs of a found user row and its
\* reply, carrying the reply's tool_id; none, one, or all that can be found
ContextualPairs(rows, conversation_id) ==
    LET found == PairableRows(rows, conversation_id)
        pair(i) == [user_message_id |-> i, tool_id |-> rows[FindReply(rows, i)].tool_id]
        ordered == SortedSeq(found)
    IN {<<>>} \cup {<<pair(i)>> : i \in found}
       \cup {[k \in 1..Len(ordered) |-> pair(ordered[k])]}

\* _simple_tool_search taking the best-ranked candidate whatever the pairs
\* carry
SimpleToolSearch_FirstCandidate(tool_candidates, contextual_pairs) ==
    IF tool_candidates = <<>> THEN 0 ELSE tool_candidates[1]

\* _simple_tool_search: the first candidate whose id some pair carries; 0
\* when no candidate matches
SimpleToolSearch(tool_candidates, contextual_pairs) ==
    LET hits == {t \in 1..Len(tool_candidates) :
                    \E c \in 1..Len(contextual_pairs) :
                        contextual_pairs[c].tool_id = tool_candidates[t]}
    IN IF hits = {} THEN 0 ELSE tool_candidates[MinOf(hits)]

\* How one exchange can go: every step works, or exactly one of them fails
ExchangeOutcomes ==
    {"ok", "start_failed", "user_insert_failed", "generate_failed",
     "tool_insert_failed", "assistant_insert_failed", "tool_raised", "tool_no_result"}

\* _generate_and_store_response: the tool runs when one was matched, the user
\* row is stored, the reply is generated, the tool row and the assistant row
\* with the tool's id are stored; whatever raises ends the storing there
GenerateAndStoreResponse(h, user_input, tool, outcome) ==
    LET user == HistoryAddMessage(h, "user", user_input, 0, 0,
                                  outcome # "start_failed", outcome # "user_insert_failed")
        with_result == tool # 0 /\ outcome # "tool_no_result"
        tool_row == IF with_result
                    THEN HistoryAddMessage(user.h, "tool", ToolContent, 0, 0, TRUE,
                                           outcome # "tool_insert_failed")
                    ELSE [h |-> user.h, raised |-> FALSE, message_id |-> 0]
        assistant == HistoryAddMessage(tool_row.h, "assistant", AssistantContent, tool,
                                       user.message_id, TRUE,
                                       outcome # "assistant_insert_failed")
    IN IF tool # 0 /\ outcome = "tool_raised" THEN h
       ELSE IF user.raised THEN user.h
       ELSE IF outcome = "generate_failed" THEN user.h
       ELSE IF tool_row.raised THEN tool_row.h
       ELSE assistant.h

\* The loop goes round again unless the handler's result says should_exit
LoopContinues(result) == ~(result.returned /\ result.should_exit)

\* One pass of the while loop: read, then the command handler, the
\* invalid-input handler, or the message path (which an 'exit' record from
\* Ctrl+C takes too): tool search, then the stored exchange
LoopPass(user_input, interrupted, db_ok) ==
    /\ loop_pc = "reading"
    /\ LET data == GetUserInput(user_input, interrupted)
           result == IF data.type = "command" THEN HandleCommand(data.action) ELSE NoResult
           op == [user_input |-> user_input, interrupted |-> interrupted,
                  db_ok |-> db_ok, result |-> result, tool_candidates |-> <<>>,
                  contextual_pairs |-> <<>>, executed |-> 0, stored |-> FALSE]
       IN /\ data.type \in {"message", "exit"}
                => /\ current_conversation = 0 => Len(conversations) < MaxConversations
                   /\ Len(messages_table) + 3 <= MaxStoredMessages
                   /\ current_sequence_number + 3 <= MaxStoredMessages
          /\ input_data' = data
          /\ loop_pc' = IF LoopContinues(result) THEN "reading" ELSE "exited"
          /\ IF data.type = "command"
             THEN /\ loop_op' = op
                  /\ IF data.action = "exit"
                     THEN SetHistory(EndCurrentConversation(History, db_ok))
                     ELSE UNCHANGED <<conversations, current_conversation,
                                      current_sequence_number, messages_table>>
             ELSE IF data.type = "invalid"
             THEN /\ loop_op' = op
                  /\ UNCHANGED <<conversations, current_conversation,
                                 current_sequence_number, messages_table>>
             ELSE \E tool_candidates \in ToolCandidates :
                  \E contextual_pairs \in ContextualPairs(messages_table, current_conversation) :
                  \E outcome \in IF db_ok THEN {"ok", "tool_raised", "tool_no_result"}
                                 ELSE ExchangeOutcomes \ {"ok", "tool_raised", "tool_no_result"} :
                      LET tool == SimpleToolSearch(tool_candidates, contextual_pairs)
                          h == GenerateAndStoreResponse(History, data.text, tool, outcome)
                      IN /\ SetHistory(h)
                         /\ loop_op' = [op EXCEPT !.tool_candidates = tool_candidates,
                                                  !.contextual_pairs = contextual_pairs,
                                                  !.executed = tool,
                                                  !.stored = (Len(h.messages) > Len(messages_table))]
    /\ UNCHANGED <<mvars, pvars, tvars, call>>

\* The rows an earlier session left in the store: one ended conversation of a
\* question and its answer, the answer with or without a tool's id
EarlierSession(tool_id) ==
    /\ loop_pc = "reading" /\ input_data = NoInput
    /\ conversations = <<>> /\ messages_table = <<>>
    /\ conversations' = <<TRUE>>
    /\ messages_table' = <<[conversation_id |-> 1, role |-> "user", content |-> LongMessage,
                      tool_id |-> 0, parent_message_id |-> 0, sequence_number |-> 1],
                    [conversation_id |-> 1, role |-> "assistant", content |-> AssistantContent,
                      tool_id |-> tool_id, parent_message_id |-> 1, sequence_number |-> 2]>>
    /\ UNCHANGED <<mvars, pvars, tvars, call, loop_pc, current_conversation,
                   current_sequence_number, input_data, loop_op>>

\* Words typed: every registered word, some in other cases, and other text
TypedWords ==
    ExitCommands \cup HelpCommands \cup ClearCommands
    \cup UNION {CommandPatterns[i].patterns : i \in 1..Len(CommandPatterns)}
    \cup {<<"E", "X", "I", "T">>, <<"H", "e", "l", "p">>, <<"/", "S", "t", "a", "t", "s">>,
          <<>>, <<"a">>, <<"h", "i">>, <<"h", "e", "l", "l", "o">>}

\* What is typed around a word: white space, control characters, an argument
Affixes ==
    {<<<<>>, <<>>>>, <<<<" ">>, <<"\t", "x1f">>>>, <<<<"x01">>, <<"x7f">>>>,
     <<<<"x01", " ">>, <<>>>>, <<<<>>, <<" ", "x01">>>>, <<<<>>, <<" ", " ", "a">>>>}

LongText(n) == [i \in 1..n |-> "a"]

\* The lines the user types: words with affixes, and lines at and over the
\* maximum length
UserInputs ==
    {a[1] \o w \o a[2] : w \in TypedWords, a \in Affixes}
    \cup {LongText(MaxInputLength), LongText(MaxInputLength + 1),
          <<"e", "x", "i", "t">> \o [i \in 1..MaxInputLength |-> " "],
          <<"s", "e", "a", "r", "c", "h", " ">> \o LongText(MaxInputLength)}

\* The lines typed at the loop: an exit word in capitals and one with white
\* space around it, another command, an empty line, and a message
LoopInputs ==
    {<<"E", "X", "I", "T">>, <<" ", "q", "u", "i", "t", "\t">>, <<"h", "e", "l", "p">>,
     <<>>, <<"h", "i">>}

LNext ==
    \/ \E user_input \in LoopInputs : \E db_ok \in BOOLEAN : LoopPass(user_input, FALSE, db_ok)
    \/ \E db_ok \in BOOLEAN : LoopPass(<<>>, TRUE, db_ok)
    \/ \E tool_id \in {0} \cup CatalogIds : EarlierSession(tool_id)

SpecLoop == Init /\ [][LNext]_vars

\* The manager's methods called one at a time, in any order
StartNewConversationCall(db_ok) ==
    /\ Len(conversations) < MaxConversations
    /\ SetHistory(StartNewConversation(History, db_ok).h)
    /\ UNCHANGED <<mvars, pvars, tvars, call, loop_pc, input_data, loop_op>>

AddMessageCall(role, start_ok, insert_ok) ==
    /\ current_conversation = 0 => Len(conversations) < MaxConversations
    /\ Len(messages_table) < MaxStoredMessages
    /\ current_sequence_number < MaxStoredMessages
    /\ SetHistory(HistoryAddMessage(History, role, <<"h", "i">>, 0, 0, start_ok, insert_ok).h)
    /\ UNCHANGED <<mvars, pvars, tvars, call, loop_pc, input_data, loop_op>>

EndCurrentConversationCall(db_ok) ==
    /\ SetHistory(EndCurrentConversation(History, db_ok))
    /\ UNCHANGED <<mvars, pvars, tvars, call, loop_pc, input_data, loop_op>>

HNext ==
    \/ \E db_ok \in BOOLEAN : StartNewConversationCall(db_ok)
    \/ \E role \in {"user", "assistant"}, start_ok \in BOOLEAN, insert_ok \in BOOLEAN :
          AddMessageCall(role, start_ok, insert_ok)
    \/ \E db_ok \in BOOLEAN : EndCurrentConversationCall(db_ok)

SpecHistory == Init /\ [][HNext]_vars

\* process_input(user_input) as a function of the line alone
ProcessInputCall(user_input) ==
    /\ call = NoCall
    /\ call' = [fn |-> "process_input", user_input |-> user_input,
                result |-> ProcessInput(user_input)]
    /\ UNCHANGED <<mvars, pvars, tvars, lvars>>

INext ==
    \/ \E user_input \in UserInputs : ProcessInputCall(user_input)
    \/ Return

SpecInput == Init /\ [][INext]_vars

-----------------------------------------------------------------------------
(* Claims about the message index, checked under Spec *)

MappedIds == {message_mapping[p] : p \in DOMAIN message_mapping}
CatchUpPcs == {"init_catchup", "search_catchup"}
NewEligible == {i \in db_eligible : i > last_indexed_message_id}

\* C1: every call of search_similar_messages runs the catch-up before it
\* searches, also on an index of zero vectors: when a search has returned and
\* neither the source read nor the embedding call failed in it, every
\* eligible message of the source has a position in the mapping.
C1_SearchRunsCatchUpFirst ==
    (lastOp.op = "search" /\ lastOp.catch_up \notin {"fetch_failed", "embed_failed"})
        => db_eligible \subseteq MappedIds

\* C2: a rebuild that fails on the source read or on the embedding call
\* leaves index, mapping and last_indexed_message_id as they were.
C2_FailedRebuildKeepsIndex ==
    [][(lastOp'.op = "rebuild" /\ lastOp'.outcome \in {"fetch_failed", "embed_failed"})
          => /\ index' = index
             /\ message_mapping' = message_mapping
             /\ last_indexed_message_id' = last_indexed_message_id]_vars

\* C3: whenever a search can run (construction is complete), the number of
\* vectors equals the size of the mapping and the mapping's keys are
\* 0..count-1.
C3_CountMatchesMapping ==
    pc \in {"ready", "search_catchup", "search_query"}
        => /\ Len(index) = Cardinality(DOMAIN message_mapping)
           /\ DOMAIN message_mapping = 0..(Len(index) - 1)

\* The files a complete save of (idx, mapping, last) leaves
FilesOf(idx, mapping, last, model) ==
    [index_file |-> File(idx),
     mapping_file |-> File(DumpMapping(mapping)),
     metadata_file |-> File(MessageMetadata(model, MappingValues(mapping), last))]

\* The index and mapping files are the ones the metadata file describes
DiskConsistent(dsk) ==
    LET meta == dsk.metadata_file.content
        mapping == IntKeys(dsk.mapping_file.content)
    IN /\ Len(dsk.index_file.content) = meta.message_count
       /\ Cardinality(DOMAIN mapping) = meta.message_count
       /\ DOMAIN mapping = 0..(meta.message_count - 1)
       /\ \A p \in DOMAIN mapping :
             /\ mapping[p] <= meta.last_indexed_message_id
             /\ dsk.index_file.content[p + 1] = Embed(meta.embedding_model, mapping[p])

\* C4: at every point, also after a save that stopped between two of its
\* writes, whatever a load accepts is an index file and a mapping file that
\* the metadata file on disk was written for.
C4_LoadNeverMixesSaves ==
    LoadPersistedIndex(disk, embedding_model_name, TRUE).is_valid => DiskConsistent(disk)

\* C8: construction adopts the persisted index only when the persisted
\* triple passes validation (entry count and watermark of the metadata agree
\* with index and mapping); otherwise it rebuilds.
C8_AdoptsOnlyValidated ==
    (lastOp.op = "construct" /\ lastOp.outcome = "loaded")
        => /\ Len(index) = disk.metadata_file.content.message_count
           /\ Cardinality(DOMAIN message_mapping) = disk.metadata_file.content.message_count
           /\ last_indexed_message_id = disk.metadata_file.content.last_indexed_message_id

\* C9: a catch-up that finds no eligible message above the watermark changes
\* neither the index, nor the mapping, nor the watermark, nor the files.
C9_CatchUpWithoutNewIsNoOp ==
    [][(pc \in CatchUpPcs /\ lastOp'.op = "catch_up" /\ NewEligible = {})
          => /\ index' = index
             /\ message_mapping' = message_mapping
             /\ last_indexed_message_id' = last_indexed_message_id
             /\ disk' = disk]_vars

C9_Witness ==
    /\ lastOp.op = "catch_up"
    /\ lastOp.outcome = "noop"
    /\ Len(index) >= 2
    /\ disk.metadata_file.kind = "file"

\* C10: a catch-up that adds m >= 1 messages puts them, ascending by id, at
\* positions count()..count()+m-1 of index and mapping, leaves every earlier
\* position as it was, moves the watermark to the largest new id and (when the
\* writes complete) leaves files that describe the new state.
C10_CatchUpAppends ==
    [][(pc \in CatchUpPcs /\ lastOp'.op = "catch_up" /\ lastOp'.outcome = "added")
          => LET new == SortedSeq(NewEligible)
                 n == Len(index)
                 m == Len(new)
             IN /\ Len(index') = n + m
                /\ \A j \in 1..m :
                      /\ index'[n + j] = Embed(embedding_model_name, new[j])
                      /\ (n + j - 1) \in DOMAIN message_mapping'
                      /\ message_mapping'[n + j - 1] = new[j]
                /\ \A p \in 0..(n - 1) :
                      /\ index'[p + 1] = index[p + 1]
                      /\ p \in DOMAIN message_mapping
                            => /\ p \in DOMAIN message_mapping'
                               /\ message_mapping'[p] = message_mapping[p]
                /\ last_indexed_message_id' = new[m]
                /\ lastOp'.persist = "ok"
                      => disk' = FilesOf(index', message_mapping',
                                         last_indexed_message_id', embedding_model_name)]_vars

\* C11: last_indexed_message_id is the largest message id of the mapping (0
\* when the mapping is empty) in every state, and no catch-up lowers it.
C11_WatermarkIsMaxMapped ==
    /\ [](last_indexed_message_id = IF MappedIds = {} THEN 0 ELSE MaxOf(MappedIds))
    /\ [][lastOp'.op = "catch_up"
            => last_indexed_message_id' >= last_indexed_message_id]_vars

C11_Witness ==
    /\ lastOp.op = "catch_up"
    /\ lastOp.outcome = "added"
    /\ Len(index) >= 2
    /\ last_indexed_message_id = MaxOf(MappedIds)
    /\ last_indexed_message_id = MaxMsgs

\* C14: a catch-up whose embedding call fails leaves index, mapping,
\* last_indexed_message_id and the files as they were, and the messages it did
\* not index are fetched again by the next catch-up.
C14_EmbedFailureKeepsIndex ==
    [][(lastOp'.op = "catch_up" /\ lastOp'.outcome = "embed_failed")
         => /\ index' = index
            /\ message_mapping' = message_mapping
            /\ last_indexed_message_id' = last_indexed_message_id
            /\ disk' = disk
            /\ NewEligible # {}
            /\ \A id \in NewEligible :
                  \E i \in 1..Cardinality(NewEligible) :
                     FetchMessagesForEmbedding(db_eligible', last_indexed_message_id',
                                               TRUE)[i] = id]_vars

C14_Witness ==
    /\ lastOp.op = "catch_up"
    /\ lastOp.outcome = "embed_failed"
    /\ Len(index) >= 1
    /\ NewEligible # {}
    /\ disk.metadata_file.kind = "file"

-----------------------------------------------------------------------------
(* Claims about the persistence manager *)

ToolFields == {"id", "description", "python_function", "query_examples"}

\* The files are those the last save wrote, which succeeded
FilesIntact ==
    /\ last_save.status = "ok"
    /\ \A f \in DOMAIN pfiles : pfiles[f].kind = "file"

\* ... but for the index file or the mapping file, one byte shorter
TruncatedByOne ==
    /\ last_save.status = "ok"
    /\ pfiles.metadata_file.kind = "file"
    /\ \E which \in {"index_file", "mapping_file"} :
          /\ pfiles[which].kind = "garbled"
          /\ \A f \in DOMAIN pfiles \ {which} : pfiles[f].kind = "file"

\* T is S with one field of one entry changed (the name is the entry's key)
DiffersInOneField(S, T) ==
    \/ /\ DOMAIN S = DOMAIN T
       /\ \E n \in DOMAIN S, f \in ToolFields :
             /\ S[n][f] # T[n][f]
             /\ \A m \in DOMAIN S, g \in ToolFields :
                   (m # n \/ g # f) => S[m][g] = T[m][g]
    \/ \E n \in DOMAIN S \ DOMAIN T, m \in DOMAIN T \ DOMAIN S :
          /\ DOMAIN S \ {n} = DOMAIN T \ {m}
          /\ S[n] = T[m]
          /\ \A o \in DOMAIN S \ {n} : S[o] = T[o]

\* T is S with one entry added or removed
OneEntryMoreOrFewer(S, T) ==
    \/ \E n \in DOMAIN T \ DOMAIN S :
          DOMAIN T = DOMAIN S \cup {n} /\ \A o \in DOMAIN S : S[o] = T[o]
    \/ \E n \in DOMAIN S \ DOMAIN T :
          DOMAIN S = DOMAIN T \cup {n} /\ \A o \in DOMAIN T : S[o] = T[o]

\* C5: after a successful save for snapshot S and model M, a load returns
\* invalid when its snapshot differs from S in one field of one entry (id,
\* name, description, handler reference, query_examples), or its model name is
\* not M, or its snapshot has one entry more or fewer, or the index file or
\* the mapping file was truncated by one byte.
C5_LoadRejectsAnyChange ==
    (/\ load_result.called
     /\ \/ /\ FilesIntact
           /\ \/ DiffersInOneField(last_save.tools, load_result.tools)
              \/ load_result.model # last_save.model
              \/ OneEntryMoreOrFewer(last_save.tools, load_result.tools)
        \/ TruncatedByOne)
    => ~load_result.result.is_valid

\* The load is called with the snapshot and model of the last save, the files
\* are as that save left them, and the source's last-modified time is the one
\* it had at the save (a load that gets a time from its probe gets that one)
SameSourceAndFiles ==
    /\ load_result.called
    /\ FilesIntact
    /\ load_result.tools = last_save.tools
    /\ load_result.model = last_save.model
    /\ load_result.current_db_update \in {0, last_save.db_update}

\* The load returned valid, with what the last save was given
ReturnsTheSaved ==
    LET saved == PrepareEmbeddings(last_save.tools, last_save.rows, last_save.model)
    IN /\ load_result.result.is_valid
       /\ Len(load_result.result.index.vectors) = Len(saved.vectors)
       /\ load_result.result.index.d = ModelDimension(last_save.model)
       /\ IntKeys(load_result.result.tool_mapping) = saved.mapping

AllChecksPassed(files, load) ==
    /\ \A f \in DOMAIN files : files[f].kind # "absent"
    /\ files.metadata_file.kind = "file"
    /\ files.index_file.kind = "file"
    /\ files.mapping_file.kind = "file"
    /\ LET metadata == files.metadata_file.content
       IN /\ metadata.embedding_model = load.model
          /\ metadata.tools_count = Cardinality(DOMAIN load.tools)
          /\ \A rows \in RowOrders(load.tools) :
                metadata.tools_checksum = CalculateToolsChecksum(load.tools, rows)
          /\ metadata.index_file_size = files.index_file.size
          /\ metadata.mapping_file_size = files.mapping_file.size
          /\ (load.current_db_update # 0
                 => metadata.last_db_update = load.current_db_update)
          /\ metadata.vector_dimension = files.index_file.content.d

\* C7: a load returns either (index, mapping, valid), both present (the
\* contents of the two files) and every check passed, or (none, none,
\* invalid); also when a read raises.
C7_ValidOrNothing ==
    load_result.called =>
        \/ /\ load_result.result.is_valid
           /\ load_result.result.index # Absent
           /\ load_result.result.tool_mapping # Absent
           /\ load_result.result.index = pfiles.index_file.content
           /\ load_result.result.tool_mapping = pfiles.mapping_file.content
           /\ load_result.readFail = "none"
           /\ AllChecksPassed(pfiles, load_result)
        \/ load_result.result = Invalid

C7_Witness ==
    /\ load_result.called
    /\ load_result.result.is_valid
    /\ load_result.current_db_update # 0
    /\ AllChecksPassed(pfiles, load_result)

C7_WitnessReadRaises ==
    /\ load_result.called
    /\ load_result.readFail = "index"
    /\ AllChecksPassed(pfiles, load_result)
    /\ load_result.result = Invalid

-----------------------------------------------------------------------------
(* Claims about the checksum *)

\* C17: the digest is the same for every order of the same entries.
C17_ChecksumIgnoresOrder ==
    call.fn = "calculate_tools_checksum" =>
        \A rows \in RowOrders(call.tools) :
            CalculateToolsChecksum(call.tools, rows) = call.digest

C17_Witness ==
    /\ call.fn = "calculate_tools_checksum"
    /\ call.rows = <<"weather", "time", "joke">>
    /\ call.digest = CalculateToolsChecksum(call.tools, <<"joke", "time", "weather">>)

\* C18: a snapshot that differs in one field of one entry (id, name,
\* description, handler reference, query_examples) has another digest.
C18_AnyFieldChangesChecksum ==
    call.fn = "calculate_tools_checksum" =>
        \A other \in ChecksumCatalogs :
            DiffersInOneField(call.tools, other) =>
                \A rows \in RowOrders(other) :
                    CalculateToolsChecksum(other, rows) # call.digest

-----------------------------------------------------------------------------
(* Claims about the ranking *)

Ranked == call.fn = "query_tools_optimized"

\* No tool passes the strict filters: distance <= 0.8 and
\* semantic = max(0, 1 - distance/0.8) >= min_semantic_score
EveryToolFailsStrict ==
    \A j \in DOMAIN call.dists :
        ~(/\ call.dists[j] <= 80
          /\ 100 * (80 - call.dists[j]) >= 80 * call.min_semantic_score)

\* The loosened semantic score max(0, 1 - distance/1.2) of the tool at j,
\* against min_semantic_score * 0.5 (both times 600)
Loosened(j) == Max2(0, 5 * (120 - call.dists[j]))
HalfMinimum == 3 * call.min_semantic_score

AnswersFallback ==
    /\ ~call.result.raised
    /\ Len(call.result.results) >= 1
    /\ \A j \in 1..Len(call.result.results) :
          call.result.results[j].llm_priority = "fallback"

AnswersNothing == ~call.result.raised /\ call.result.results = <<>>

ExactTools ==
    {p \in DOMAIN call.tool_mapping :
        /\ Len(call.tool_mapping[p].row.query_examples.items) = 1
        /\ call.tool_mapping[p].row.query_examples.items[1] = call.user_query}

\* C20: a query identical to the sole query example of one tool gets that
\* tool first, with tier high_confidence.
C20_ExactMatchHighConfidence ==
    (Ranked /\ call.max_candidates >= 1) =>
        \A p \in ExactTools :
            /\ ~call.result.raised
            /\ Len(call.result.results) >= 1
            /\ call.result.results[1].name = call.tool_mapping[p].name
            /\ call.result.results[1].llm_priority = "high_confidence"

-----------------------------------------------------------------------------
(* Claims about the construction and rebuild of the tool index *)

\* C12: rank, find_similar and contextual_pairs return the empty sequence
\* instead of raising whenever the index is empty or was never built: with an
\* empty tool catalog there is a manager to ask and its rank returns nothing,
\* a rank over an empty mapping or index returns nothing, and a search of an
\* empty message index returns nothing.  (Failures of the environment during
\* the call itself are left out.)
C12_EmptyIndexAnswersEmpty ==
    /\ (tool_op.op = "construct" /\ tool_op.env_ok) => tool_pc = "ready"
    /\ (/\ tool_op.op = "rank"
        /\ tool_op.env_ok
        /\ (DOMAIN tool_mapping = {} \/ tool_index.vectors = <<>>))
          => tool_op.result = Returned(<<>>)
    /\ (lastOp.op = "search" /\ index = <<>>) => lastResult = <<>>

\* C13: a rebuild of the tool index that fails because the catalog read
\* yields no rows or because the embedding fails leaves the previous index
\* and mapping in place.
C13_FailedRebuildKeepsIndex ==
    [][(tool_op'.op = "rebuild" /\ tool_op'.outcome \in {"no_rows", "embed_failed"})
          => (tool_index' = tool_index /\ tool_mapping' = tool_mapping)]_vars

\* C15: after a construction and after a rebuild that succeeded, the mapping
\* keys are 0..N-1 for the N tools of the catalog just loaded, position i
\* holds the record of the tool whose embedding is vector i, and nothing of
\* a previous catalog remains.
C15_MappingIsTheCatalog ==
    (tool_op.op \in {"construct", "rebuild"}
        /\ tool_op.outcome \in {"loaded", "built", "built_unsaved", "rebuilt"}) =>
        LET N == Len(tool_dict.rows)
        IN /\ DOMAIN tool_mapping = 0..(N - 1)
           /\ Len(tool_index.vectors) = N
           /\ \A p, q \in 0..(N - 1) :
                 tool_mapping[p].name = tool_mapping[q].name => p = q
           /\ \A p \in 0..(N - 1) :
                 /\ tool_mapping[p].name \in DOMAIN tool_dict.data
                 /\ tool_mapping[p].row = tool_dict.data[tool_mapping[p].name]
                 /\ tool_index.vectors[p + 1] =
                        Embed(DefaultModel, EmbeddedText(tool_mapping[p].row))

\* C16: construction always ends Ready with as many vectors as the catalog
\* has tools; after a successful load no embedding was computed, otherwise
\* one was computed for every tool and the artifacts were persisted.  (Only
\* constructions in which the environment did not fail are looked at.)
C16_ConstructionEndsReady ==
    (tool_op.op = "construct" /\ tool_op.env_ok) =>
        /\ tool_pc = "ready"
        /\ tool_op.outcome # "raised"
        /\ Len(tool_index.vectors) = Len(tool_dict.rows)
        /\ tool_op.outcome = "loaded" => tool_op.embedded = 0
        /\ tool_op.outcome # "loaded" =>
              /\ tool_op.embedded = Len(tool_dict.rows)
              /\ tool_op.persisted

-----------------------------------------------------------------------------
(* Claims about the ranking on the manager *)

TierOf(combined_score) ==
    IF 5 * combined_score.n >= 4 * combined_score.d THEN "high_confidence"
    ELSE IF 5 * combined_score.n >= 3 * combined_score.d THEN "standard"
    ELSE "low_confidence"

\* C22: a sequence returned by rank is entirely fallback-tier or has no
\* fallback-tier entry; an entry of the primary path has the tier of its
\* combined score (high_confidence from 0.8, standard from 0.6, else
\* low_confidence); a fallback entry has the loosened semantic score
\* max(0, 1 - distance/1.2) as its only score; and when every tool fails the
\* strict filters every entry is fallback-tier.
C22_TiersDoNotMix ==
    (Ranked /\ ~call.result.raised) =>
        LET results == call.result.results
            fallback(j) == results[j].llm_priority = "fallback"
        IN /\ (\A j \in 1..Len(results) : fallback(j))
                \/ (\A j \in 1..Len(results) : ~fallback(j))
           /\ \A j \in 1..Len(results) :
                 IF fallback(j)
                 THEN /\ results[j].combined_score = results[j].semantic_score
                      /\ results[j].semantic_score =
                             Frac(Max2(0, 120 - results[j].distance), 120)
                 ELSE /\ results[j].llm_priority = TierOf(results[j].combined_score)
                      /\ results[j].semantic_score =
                             Frac(Max2(0, 80 - results[j].distance), 80)
           /\ EveryToolFailsStrict => \A j \in 1..Len(results) : fallback(j)

C22_Witness ==
    /\ Ranked
    /\ ~call.result.raised
    /\ Len(call.result.results) >= 2
    /\ call.result.results[1].llm_priority = "high_confidence"
    /\ call.result.results[2].llm_priority \in {"standard", "low_confidence"}

-----------------------------------------------------------------------------
(* Claims about the search of the message index *)

Searched == call.fn = "search_similar_messages"

\* C23: no result of find_similar has a similarity below min_similarity, a
\* conversation in exclude_conversation_ids, or, when max_age_days is given
\* (any non-negative integer), an age above max_age_days.
C23_ResultsPassTheFilters ==
    Searched =>
        \A j \in 1..Len(call.result) :
            /\ call.result[j].similarity_score = Similarity(call.result[j].l2_distance)
            /\ call.result[j].similarity_score >= call.args.min_similarity_score
            /\ ConversationOf(call.result[j].id) \notin call.exclude_conversation_ids
            /\ call.args.max_age_days >= 0 =>
                  AgeDaysOf(call.result[j].id) <= call.args.max_age_days

Paired == call.fn = "get_contextual_messages_for_response"

\* The assistant rows linked to a user message, and the first by sequence number
LinkedRows(id) == {r \in call.replies : r.parent_message_id = id}
FirstLinked(id) ==
    CHOOSE r \in LinkedRows(id) :
        \A o \in LinkedRows(id) : r.sequence_number <= o.sequence_number

RECURSIVE LinkedUserResults(_)
LinkedUserResults(i) ==
    IF i > Len(call.similar) THEN <<>>
    ELSE IF call.roles[call.similar[i].id] = "user" /\ LinkedRows(call.similar[i].id) # {}
    THEN <<call.similar[i].id>> \o LinkedUserResults(i + 1)
    ELSE LinkedUserResults(i + 1)

\* C25: a candidate without linked assistant reply uses no slot: the pairs
\* are the first min(max_pairs, n) of the n user-role results of
\* find_similar(k = 2 * max_pairs) that have a linked reply, in that order
\* (the lookups of the replies succeeding).
C25_SkippedUseNoSlot ==
    (Paired /\ call.lookupOk) =>
        LET linked == LinkedUserResults(1)
            n == Min2(call.max_context_pairs, Len(linked))
        IN /\ Len(call.result) = n
           /\ \A j \in 1..n : call.result[j].user_message = linked[j]

C25_Witness ==
    /\ Paired
    /\ call.lookupOk
    /\ call.max_context_pairs = 1
    /\ Len(call.similar) = 2
    /\ call.roles[call.similar[1].id] = "user"
    /\ LinkedRows(call.similar[1].id) = {}
    /\ Len(call.result) = 1
    /\ call.result[1].user_message = call.similar[2].id

-----------------------------------------------------------------------------
(* Claims about the index used from two threads *)

\* C26: a search in another thread never observes vectors that were added
\* without their mapping entries, nor a mapping or a watermark that was reset
\* before the rebuilt store is in place.
C26_SearchNeverSeesHalfAnUpdate ==
    call.fn = "search_similar_messages_thread" =>
        /\ call.ntotal = call.mapped
        /\ call.ntotal > 0 => call.last_indexed_message_id > 0

-----------------------------------------------------------------------------
(* Claims about failures of the persist *)

\* What the handler that just ran leaves in memory when its persist succeeds
AfterPersistOk(op) ==
    CASE op = "construct" ->
             BuildIndexFromScratch(Manager(<<>>, EmptyMapping, 0, disk),
                                   embedding_model_name', db_eligible, TRUE, TRUE, "ok")
      [] op = "rebuild" ->
             RebuildIndex(Current, embedding_model_name, db_eligible, TRUE, TRUE, "ok")
      [] OTHER ->
             UpdateIndexIncrementally(Current, embedding_model_name, db_eligible,
                                      TRUE, TRUE, "ok")

\* C27: a failed persist in a construction, rebuild or catch-up is logged and
\* does not raise: the manager is there afterwards and holds the index,
\* mapping and watermark it would hold had the persist succeeded.
C27_FailedPersistIsNotFatal ==
    [][lastOp'.persist = "failed" =>
          /\ pc' # "down"
          /\ lastOp'.log = <<"message_index_save_failed">>
          /\ index' = AfterPersistOk(lastOp'.op).index
          /\ message_mapping' = AfterPersistOk(lastOp'.op).message_mapping
          /\ last_indexed_message_id' = AfterPersistOk(lastOp'.op).last_indexed_message_id
          /\ index' # <<>>]_vars

C27_Witness ==
    /\ lastOp.op = "catch_up"
    /\ lastOp.persist = "failed"
    /\ pc = "search_query"
    /\ Len(index) >= 2
    /\ disk.mapping_file.kind = "garbled"

-----------------------------------------------------------------------------
(* Claims about the log of the load *)

\* The files can be read, and these of the seven checks fail on them
FilesReadable ==
    /\ load_result.readFail = "none"
    /\ \A f \in DOMAIN pfiles : pfiles[f].kind = "file"

FailedChecks ==
    LET metadata == pfiles.metadata_file.content
    IN {c \in {"embedding_model", "tools_count", "index_file_size", "mapping_file_size",
               "last_db_update", "vector_dimension"} :
          \/ c = "embedding_model" /\ metadata.embedding_model # load_result.model
          \/ c = "tools_count"
                /\ metadata.tools_count # Cardinality(DOMAIN load_result.tools)
          \/ c = "index_file_size" /\ metadata.index_file_size # pfiles.index_file.size
          \/ c = "mapping_file_size"
                /\ metadata.mapping_file_size # pfiles.mapping_file.size
          \/ c = "last_db_update"
                /\ load_result.current_db_update # 0
                /\ metadata.last_db_update # load_result.current_db_update
          \/ c = "vector_dimension"
                /\ metadata.vector_dimension # pfiles.index_file.content.d}

\* C28: when a load has returned invalid the log holds an entry of that load,
\* and when the files could be read the entry names at least one reason and
\* only checks that failed (the checksum apart, which the entry may name too).
C28_InvalidIsLoggedWithReason ==
    (load_result.called /\ ~load_result.result.is_valid) =>
        /\ load_result.log # <<>>
        /\ FilesReadable =>
              /\ load_result.log[1].event = "faiss_index_invalid"
              /\ load_result.log[1].issues # {}
              /\ load_result.log[1].issues \subseteq FailedChecks \cup {"tools_checksum"}

-----------------------------------------------------------------------------
(* Claims about the input handler, checked under SpecInput *)

\* The action registered for a command word
RegisteredAction(w) ==
    IF w \in ExitCommands THEN "exit"
    ELSE IF w \in HelpCommands THEN "help"
    ELSE IF w \in ClearCommands THEN "clear"
    ELSE CommandPatterns[CHOOSE i \in 1..Len(CommandPatterns) :
                            w \in CommandPatterns[i].patterns].action

RegisteredWords ==
    ExitCommands \cup HelpCommands \cup ClearCommands
    \cup UNION {CommandPatterns[i].patterns : i \in 1..Len(CommandPatterns)}

\* C29: a line that, sanitised and lower-cased, is a registered command word
\* is classified 'command' with that word's action, whatever its length; a
\* line that is empty or longer than 1000 characters once sanitised is
\* classified 'invalid', also when it starts with a command word
C29_CommandWordsAreCommands ==
    call.fn = "process_input" =>
        LET s == SanitizeInput(call.user_input)
        IN /\ LowerCase(s) \in RegisteredWords =>
                 /\ call.result.type = "command"
                 /\ call.result.action = RegisteredAction(LowerCase(s))
           /\ (s = <<>> \/ Len(s) > MaxInputLength) => call.result.type = "invalid"

\* A one-character command word, typed with white space around it
C29_Witness ==
    /\ call.fn = "process_input"
    /\ call.user_input # SanitizeInput(call.user_input)
    /\ Len(SanitizeInput(call.user_input)) < MinInputLength
    /\ LowerCase(SanitizeInput(call.user_input)) \in HelpCommands
    /\ call.result = [text |-> <<"?">>, type |-> "command", action |-> "help"]

-----------------------------------------------------------------------------
(* Claims about the exit command, checked under SpecLoop *)

\* C30: the pass that handles the exit command gets a result with should_exit,
\* leaves the loop, and (the UPDATE succeeding) has marked the conversation
\* that was current as ended and forgotten its id; once the loop is left no
\* input is read; and a result with should_exit comes from the exit command only
C30_OnlyExitLeavesTheLoop ==
    /\ [][(input_data'.type = "command" /\ input_data'.action = "exit") =>
             /\ loop_op'.result.returned /\ loop_op'.result.should_exit
             /\ loop_pc' = "exited"
             /\ loop_op'.db_ok =>
                   /\ current_conversation' = 0
                   /\ current_conversation # 0 => conversations'[current_conversation]]_vars
    /\ [][loop_pc = "exited" => UNCHANGED <<input_data, loop_op>>]_vars
    /\ [](loop_op.result.returned =>
             /\ loop_pc = "exited"
             /\ input_data.type = "command" /\ input_data.action = "exit")

\* EXIT typed in capitals while a conversation is open
C30_Witness ==
    /\ loop_pc = "exited"
    /\ loop_op.user_input = <<"E", "X", "I", "T">>
    /\ loop_op.result.returned /\ loop_op.result.should_exit
    /\ conversations = <<TRUE>>
    /\ current_conversation = 0

-----------------------------------------------------------------------------
(* Claims about the candidates of the primary path, checked under SpecRank *)

PrimaryResults ==
    IF Ranked /\ ~call.result.raised
    THEN SelectSeq(call.result.results, LAMBDA c : c.llm_priority # "fallback")
    ELSE <<>>

\* C31: every candidate returned on the primary path has distance <= 0.8,
\* carries semantic = max(0, 1 - distance/0.8), and that score is at least
\* min_semantic_score
C31_PrimaryPassesStrictFilters ==
    \A j \in 1..Len(PrimaryResults) :
        LET c == PrimaryResults[j]
        IN /\ c.distance <= 80
           /\ c.semantic_score = Frac(Max2(0, 80 - c.distance), 80)
           /\ 100 * c.semantic_score.n >= call.min_semantic_score * c.semantic_score.d

\* One tool is returned while the other, within distance 0.8 but under the
\* minimum semantic score, is not, with room left in max_candidates
C31_Witness ==
    /\ Len(PrimaryResults) = 1
    /\ call.max_candidates >= 2
    /\ \E j \in DOMAIN call.dists :
          /\ call.dists[j] <= 80
          /\ 100 * (80 - call.dists[j]) < 80 * call.min_semantic_score
          /\ call.tool_mapping[j - 1].name # PrimaryResults[1].name

\* The positions the primary search reaches: the min(15, 2 * catalog size)
\* nearest, equal distances by position
SearchOrderBefore(p, q) ==
    \/ call.dists[p + 1] < call.dists[q + 1]
    \/ (call.dists[p + 1] = call.dists[q + 1] /\ p < q)

Reached ==
    {p \in DOMAIN call.tool_mapping :
        Cardinality({q \in DOMAIN call.tool_mapping : SearchOrderBefore(q, p)})
            < Min2(15, 2 * Cardinality(DOMAIN call.tool_mapping))}

Survivors ==
    {p \in Reached : /\ call.dists[p + 1] <= 80
                     /\ 100 * (80 - call.dists[p + 1]) >= 80 * call.min_semantic_score}

CombinedOf(p) ==
    CombinedScore(Frac(80 - call.dists[p + 1], 80), call.user_query, call.tool_mapping[p].row)

\* p comes before q in the result: a higher combined score, or an equal one
\* and earlier in the search order
RankedBefore(p, q) ==
    \/ ~FLe(CombinedOf(p), CombinedOf(q))
    \/ (CombinedOf(p) = CombinedOf(q) /\ SearchOrderBefore(p, q))

PositionOf(c) == CHOOSE p \in DOMAIN call.tool_mapping : call.tool_mapping[p].name = c.name

\* C32: when some neighbour survives the filters, the result is the survivors
\* among the min(15, 2 * catalog size) nearest, by combined score descending,
\* equal scores in search order, cut to the first max_candidates
C32_PrimaryIsSortedSurvivors ==
    (Ranked /\ ~call.result.raised /\ Survivors # {}) =>
        LET results == call.result.results
        IN /\ Len(results) = Min2(call.max_candidates, Cardinality(Survivors))
           /\ \A j \in 1..Len(results) :
                 /\ PositionOf(results[j]) \in Survivors
                 /\ results[j].combined_score = CombinedOf(PositionOf(results[j]))
                 /\ \A q \in Survivors :
                       RankedBefore(q, PositionOf(results[j]))
                           => \E l \in 1..(j - 1) : PositionOf(results[l]) = q

\* Sixteen tools at the same distance: the fifteen nearest by position are
\* returned, with equal scores, and the sixteenth, whose combined score is
\* higher than theirs, is not
C32_Witness ==
    /\ Ranked /\ ~call.result.raised
    /\ Cardinality(DOMAIN call.tool_mapping) = 16
    /\ Len(call.result.results) = 15
    /\ call.result.results[1].combined_score = call.result.results[2].combined_score
    /\ \E p \in DOMAIN call.tool_mapping :
          /\ p \notin Reached
          /\ call.dists[p + 1] <= 80
          /\ ~FLe(CombinedOf(p), call.result.results[1].combined_score)

-----------------------------------------------------------------------------
(* Claims about the order and number of the search results, under SpecSearch *)

DistanceTo(id) == Distance(Embed(DefaultModel, call.query), Embed(DefaultModel, id))

\* The index search returns id a before id b: nearer, or as near and at an
\* earlier position (positions are in id order)
FoundBefore(a, b) ==
    \/ DistanceTo(a) < DistanceTo(b)
    \/ (DistanceTo(a) = DistanceTo(b) /\ a < b)

\* The messages among the min(3k, count()) nearest
Examined ==
    {id \in call.ids :
        Cardinality({o \in call.ids : FoundBefore(o, id)})
            < Min2(3 * call.k, Cardinality(call.ids))}

FailsSomeFilter(id) ==
    \/ Similarity(DistanceTo(id)) < call.args.min_similarity_score
    \/ ConversationOf(id) \in call.exclude_conversation_ids
    \/ (call.args.max_age_days >= 0 /\ AgeDaysOf(id) > call.args.max_age_days)

ResultIds == {call.result[j].id : j \in 1..Len(call.result)}

\* C33: find_similar returns at most k results, each among the min(3k, count())
\* nearest, in search order with similarity non-increasing and search_rank i
\* for the i-th; a search that completes leaves out an examined message only
\* if it fails a filter or comes after the k-th result
C33_FirstKInSearchOrder ==
    Searched =>
        /\ Len(call.result) <= call.k
        /\ \A j \in 1..Len(call.result) :
              /\ call.result[j].id \in Examined
              /\ call.result[j].search_rank = j
              /\ \A l \in 1..(j - 1) :
                    /\ FoundBefore(call.result[l].id, call.result[j].id)
                    /\ call.result[l].similarity_score >= call.result[j].similarity_score
        /\ call.encodeOk =>
              \A id \in Examined \ ResultIds :
                  \/ FailsSomeFilter(id)
                  \/ /\ Len(call.result) = call.k
                     /\ FoundBefore(call.result[call.k].id, id)

\* Two results of three examined messages, one skipped between them by a
\* filter, and a message that passes every filter left out after the second
C33_Witness ==
    /\ Searched
    /\ call.k = 2
    /\ Len(call.result) = 2
    /\ \E id \in Examined \ ResultIds :
          FailsSomeFilter(id) /\ FoundBefore(id, call.result[2].id)
    /\ \E id \in call.ids \ ResultIds : ~FailsSomeFilter(id)

-----------------------------------------------------------------------------
(* Further claims about the message index, checked under Spec *)

\* C34: in every state that construction (from the files or from scratch),
\* catch-up and rebuild reach, no message id is at two positions of the mapping
C34_NoIdAtTwoPositions ==
    \A p, q \in DOMAIN message_mapping :
        message_mapping[p] = message_mapping[q] => p = q

\* A catch-up has added a message to a mapping that held others: every
\* message of the source is mapped, each at one position
C34_Witness ==
    /\ lastOp.op = "catch_up"
    /\ lastOp.outcome = "added"
    /\ MappedIds = 1..MaxMsgs
    /\ Cardinality(DOMAIN message_mapping) = MaxMsgs

\* C35: messages are inserted with increasing ids and never deleted; after a
\* catch-up or a rebuild that completed without error, every eligible message
\* with id <= last_indexed_message_id has a position in the mapping
C35_WatermarkSkipsNothing ==
    (lastOp.op \in {"catch_up", "rebuild"} /\ lastOp.outcome \in {"added", "noop", "built", "empty"})
        => \A id \in db_eligible : id <= last_indexed_message_id => id \in MappedIds

\* A catch-up has added messages around one that is not eligible: the
\* watermark is the newest id and every eligible message below it is mapped
C35_Witness ==
    /\ lastOp.op = "catch_up"
    /\ lastOp.outcome = "added"
    /\ last_indexed_message_id = MaxMsgs
    /\ Cardinality(db_eligible) = MaxMsgs - 1
    /\ db_eligible = MappedIds

-----------------------------------------------------------------------------
(* Claims about the orchestrator loop and the conversation store *)

NoAssistantToolId(rows) ==
    \A i \in 1..Len(rows) : rows[i].role = "assistant" => rows[i].tool_id = 0

NewRows == {i \in 1..Len(messages_table') : i > Len(messages_table)}

\* C36: a pass of the loop executes a tool only if one of the context pairs
\* retrieved in that pass carries the id of one of the ranked candidates,
\* and the tool executed is that candidate; an assistant row is stored with
\* a tool's id only by a pass that executed that tool; so a pass that finds
\* no assistant row with a tool's id in the store executes no tool and
\* leaves the store without such a row
C36_ToolNeedsContextWithItsId ==
    /\ [](loop_op.executed # 0 =>
             \E t \in 1..Len(loop_op.tool_candidates) :
                 /\ loop_op.executed = loop_op.tool_candidates[t]
                 /\ \E c \in 1..Len(loop_op.contextual_pairs) :
                        loop_op.contextual_pairs[c].tool_id = loop_op.tool_candidates[t])
    /\ [][input_data' # NoInput =>
             \A i \in NewRows :
                 messages_table'[i].role = "assistant" /\ messages_table'[i].tool_id # 0
                     => loop_op'.executed = messages_table'[i].tool_id]_vars
    /\ [][(input_data' # NoInput /\ NoAssistantToolId(messages_table))
             => (loop_op'.executed = 0 /\ NoAssistantToolId(messages_table'))]_vars

C36_Witness ==
    /\ loop_op.executed = 1 /\ loop_op.tool_candidates = <<2, 1>>
    /\ Len(messages_table) = 5
    /\ messages_table[4].role = "tool"
    /\ messages_table[5].role = "assistant" /\ messages_table[5].tool_id = 1
    /\ messages_table[5].conversation_id = 2

\* C37: the last pass stored rows only if its input was of type 'message';
\* a pass on a 'command' or an 'invalid' input stored nothing; a pass on an
\* 'exit' input (Ctrl+C, end of input) stored nothing, executed no tool and
\* left the loop
C37_OnlyMessagesAreProcessed ==
    /\ loop_op.stored => input_data.type = "message"
    /\ input_data.type \in {"command", "invalid"} => ~loop_op.stored /\ loop_op.executed = 0
    /\ input_data.type = "exit" =>
          ~loop_op.stored /\ loop_op.executed = 0 /\ loop_pc = "exited"

\* The row ids of a conversation's stored messages
RowsOf(c) == {i \in 1..Len(messages_table) : messages_table[i].conversation_id = c}

\* C38: in every conversation the stored messages have strictly increasing
\* sequence numbers in the order they were stored, and the first stored
\* message has sequence number 1, whatever inserts failed before it and
\* whichever conversation was ended before this one started
C38_SequenceNumbersStartAtOne ==
    \A c \in 1..Len(conversations) :
        /\ \A i, j \in RowsOf(c) :
              i < j => messages_table[i].sequence_number < messages_table[j].sequence_number
        /\ RowsOf(c) # {} => messages_table[MinOf(RowsOf(c))].sequence_number = 1

-----------------------------------------------------------------------------
(* Claims about should_skip_llm_evaluation, checked under SpecSkip *)

\* C39: when the ranking was called with min_semantic_score of at most 0.85,
\* should_skip_llm_evaluation is false for every candidate of the fallback
\* tier it returned, each of which has a semantic score below 0.9 and no
\* keyword_bonus
C39_FallbackNeverSkips ==
    (call.fn = "should_skip_llm_evaluation" /\ call.min_semantic_score <= 85) =>
        \A j \in 1..Len(call.result.results) :
            call.result.results[j].llm_priority = "fallback" =>
                /\ ~call.skips[j]
                /\ ~FLe(Frac(9, 10), call.result.results[j].semantic_score)
                /\ "keyword_bonus" \notin DOMAIN call.result.results[j]

C39_Witness ==
    /\ call.fn = "should_skip_llm_evaluation" /\ call.min_semantic_score = 85
    /\ call.user_query = "Tell me a joke"
    /\ Len(call.result.results) = 2
    /\ call.result.results[1].llm_priority = "fallback"
    /\ call.result.results[1].distance = 13
    /\ call.skips = <<FALSE, FALSE>>

=============================================================================
